---- MODULE Spec2Model ----
(***************************************************************************)
(* A model of the tool server.  First its calculator core                  *)
(* (src/src/core/tools/calculator.py): CalculatorTool.calculate with its   *)
(* helpers _clean_expression, _validate_expression and                     *)
(* _evaluate_expression, scientific_function and unit_conversion, and the  *)
(* endpoints of src/src/core/tools/tools.py that wrap them.  Then, at the  *)
(* end of the module, the forecast endpoint with its WeatherTool           *)
(* (weather.py) and the YouTubeTranscriptTool (youtube_transcript.py).     *)
(*                                                                         *)
(* A Python string is a sequence of characters, each character a TLA+      *)
(* string.  A Python value is a record [k, n, d]: k is its type and n/d    *)
(* the number it holds as a fraction in lowest terms (floats are kept as   *)
(* exact fractions; the rounding of IEEE doubles is not modelled).         *)
(* The outcome of a Python call is a record: either a returned value or a  *)
(* raised exception with its class and message.                            *)
(***************************************************************************)
EXTENDS Integers, Sequences, FiniteSets, TLC

VARIABLES pc, call, shape, res, evalArg, mathArg, caught, operations,
          functions, clock, history, threads, response,
          env, weather_tool, requests, forecast,
          tools, disk, jobs, calls

\* The state of the weather endpoint and of the transcript tool, which no
\* calculator call touches.
weather == <<env, weather_tool, requests, forecast>>

youtube == <<tools, disk, jobs, calls>>

otherTools == <<weather, youtube>>

vars == <<pc, call, shape, res, evalArg, mathArg, caught, operations,
         functions, clock, history, threads, response, otherTools>>

(***************************************************************************)
(* Characters.                                                             *)
(***************************************************************************)
\* U+00D7 MULTIPLICATION SIGN and U+00F7 DIVISION SIGN of _clean_expression.
TimesSign == "U+00D7"
DivSign == "U+00F7"

Digits == {"0", "1", "2", "3", "4", "5", "6", "7", "8", "9"}

Letters ==
  {"a", "b", "c", "d", "e", "f", "g", "h", "i", "j", "k", "l", "m", "n", "o",
   "p", "q", "r", "s", "t", "u", "v", "w", "x", "y", "z"}

Whitespace == {" "}

DigitVal(c) ==
  CASE c = "0" -> 0 [] c = "1" -> 1 [] c = "2" -> 2 [] c = "3" -> 3
    [] c = "4" -> 4 [] c = "5" -> 5 [] c = "6" -> 6 [] c = "7" -> 7
    [] c = "8" -> 8 [] c = "9" -> 9

(***************************************************************************)
(* String helpers: str.count, str.replace for a one-character pattern.     *)
(***************************************************************************)
Count(s, c) == Cardinality({i \in 1..Len(s) : s[i] = c})

RECURSIVE Replace(_, _, _)
Replace(s, old, new) ==
  IF s = <<>> THEN <<>>
  ELSE (IF Head(s) = old THEN new ELSE <<Head(s)>>) \o Replace(Tail(s), old, new)

(***************************************************************************)
(* Python values and call outcomes.                                        *)
(***************************************************************************)
Val(k, n, d) == [k |-> k, n |-> n, d |-> d]

IntV(n) == Val("int", n, 1)

NoneV == Val("none", 0, 1)

TupleV == Val("tuple", 0, 1)

EllipsisV == Val("ellipsis", 0, 1)

ComplexV == Val("complex", 0, 1)

\* A number the model does not compute (an irrational value, an integer
\* beyond IntRange): denominator 0.  Its type is still known.
Unknown(k) == Val(k, 0, 0)

\* The floats that are no fraction: denominator 0 as well.
Inf == Val("float", 1, 0)

NegInf == Val("float", -1, 0)

Nan == Val("float", 2, 0)

\* The finite float 1e308: more than half the largest double, so twice it
\* overflows to an infinity, and so far from its neighbours that adding a
\* modelled fraction leaves it as it is.
Huge == Val("float", 3, 0)

Ret(v) == [tag |-> "ret", val |-> v, exc |-> "", msg |-> ""]

Raise(e, m) == [tag |-> "raise", val |-> NoneV, exc |-> e, msg |-> m]

\* o, then f on its value unless o raised.
Then(o, f(_)) == IF o.tag = "raise" THEN o ELSE f(o.val)

\* f on the value v, computed once.
With(v, f(_)) == f(v)

RECURSIVE Gcd(_, _)
Gcd(a, b) == IF b = 0 THEN a ELSE Gcd(b, a % b)

Abs(x) == IF x < 0 THEN -x ELSE x

\* The fraction n/d in lowest terms with a positive denominator.
Frac(k, n, d) ==
  LET g == Gcd(Abs(n), Abs(d))
      s == IF d < 0 THEN -1 ELSE 1
  IN Val(k, s * (n \div g), s * (d \div g))

IsNumber(v) == v.k \in {"int", "float"}

IsExact(v) == IsNumber(v) /\ v.d # 0

TypeName(v) == IF v.k = "none" THEN "NoneType" ELSE v.k

(***************************************************************************)
(* Python arithmetic on int and float (and the empty tuple, the only       *)
(* non-number besides Ellipsis an expression over the accepted characters  *)
(* can build).                                                             *)
(***************************************************************************)
\* Magnitudes above IntRange are kept as Unknown.
IntRange == 1000000

\* The type of the result of + - * // % on two numbers.
Wider(a, b) == IF a.k = "int" /\ b.k = "int" THEN "int" ELSE "float"

Sign(x) == IF x < 0 THEN -1 ELSE 1

UnsupportedOperand(op, a, b) ==
  Raise("TypeError", "unsupported operand type(s) for " \o op \o ": '"
                     \o TypeName(a) \o "' and '" \o TypeName(b) \o "'")

IsZero(v) == IsExact(v) /\ v.n = 0

\* float(x) for a number x.
ToFloat(v) == Val("float", v.n, v.d)

\* The result of an operation with an operand that is no fraction: nan
\* stays nan, an infinity keeps or (flip) changes its sign.
Special(a, b, flip) ==
  IF a = Nan \/ b = Nan THEN Nan
  ELSE IF a \in {Inf, NegInf} /\ b.d # 0
    THEN IF flip THEN (IF a = Inf THEN NegInf ELSE Inf) ELSE a
  ELSE Unknown(Wider(a, b))

PyAdd(a, b) ==
  IF IsNumber(a) /\ IsNumber(b)
    THEN IF IsExact(a) /\ IsExact(b)
           THEN Ret(Frac(Wider(a, b), a.n * b.d + b.n * a.d, a.d * b.d))
         ELSE IF a = Huge /\ IsExact(b) THEN Ret(Huge)
         ELSE Ret(Special(a, b, FALSE))
  ELSE IF a.k \in {"tuple", "str"}
    THEN IF b.k = a.k THEN Ret(a)
         ELSE Raise("TypeError", "can only concatenate " \o a.k \o " (not \""
                                 \o TypeName(b) \o "\") to " \o a.k)
  ELSE UnsupportedOperand("+", a, b)

PySub(a, b) ==
  IF IsNumber(a) /\ IsNumber(b)
    THEN IF IsExact(a) /\ IsExact(b)
           THEN Ret(Frac(Wider(a, b), a.n * b.d - b.n * a.d, a.d * b.d))
         ELSE IF a = Huge /\ IsExact(b) THEN Ret(Huge)
         ELSE Ret(Special(a, b, FALSE))
  ELSE UnsupportedOperand("-", a, b)

PyMul(a, b) ==
  IF IsNumber(a) /\ IsNumber(b)
    THEN IF IsExact(a) /\ IsExact(b)
           THEN Ret(Frac(Wider(a, b), a.n * b.n, a.d * b.d))
         ELSE IF IsZero(b) THEN Ret(IF a = Huge THEN Val("float", 0, 1) ELSE Nan)
         \* float overflow gives an infinity, no exception
         ELSE IF a = Huge /\ IsExact(b) /\ Abs(b.n) >= 2 * b.d
           THEN Ret(IF b.n < 0 THEN NegInf ELSE Inf)
         ELSE Ret(Special(a, b, b.n < 0))
  ELSE IF (a.k = "tuple" /\ b.k = "int") \/ (a.k = "int" /\ b.k = "tuple")
    THEN Ret(TupleV)
  \* a sequence repeated; the text of a str is not kept
  ELSE IF a.k = "str" /\ b.k = "int" THEN Ret(a)
  ELSE IF a.k = "str" /\ b.k = "float"
    THEN Raise("TypeError",
               "can't multiply sequence by non-int of type 'float'")
  ELSE UnsupportedOperand("*", a, b)

\* floor(a / b) for exact a, b with b nonzero.
FloorQuot(a, b) == (a.n * b.d * Sign(b.n)) \div (a.d * Abs(b.n))

PyTrueDiv(a, b) ==
  IF IsNumber(a) /\ IsNumber(b)
    THEN IF IsZero(b) THEN Raise("ZeroDivisionError", "division by zero")
         ELSE IF IsExact(a) /\ IsExact(b)
           THEN Ret(Frac("float", a.n * b.d, a.d * b.n))
         ELSE IF a = Huge /\ IsExact(b) /\ 2 * Abs(b.n) <= b.d
           THEN Ret(IF b.n < 0 THEN NegInf ELSE Inf)
         ELSE Ret(Special(ToFloat(a), b, b.n < 0))
  ELSE UnsupportedOperand("/", a, b)

PyFloorDiv(a, b) ==
  IF IsNumber(a) /\ IsNumber(b)
    THEN IF IsZero(b)
           THEN Raise("ZeroDivisionError", "integer division or modulo by zero")
         ELSE IF IsExact(a) /\ IsExact(b)
           THEN Ret(Val(Wider(a, b), FloorQuot(a, b), 1))
         ELSE Ret(Unknown(Wider(a, b)))
  ELSE UnsupportedOperand("//", a, b)

\* a % b = a - b * floor(a / b): the result has the sign of the divisor.
PyMod(a, b) ==
  IF IsNumber(a) /\ IsNumber(b)
    THEN IF IsZero(b)
           THEN Raise("ZeroDivisionError", "integer division or modulo by zero")
         ELSE IF IsExact(a) /\ IsExact(b)
           THEN LET q == FloorQuot(a, b)
                IN Ret(Frac(Wider(a, b), a.n * b.d - q * b.n * a.d, a.d * b.d))
         ELSE Ret(Unknown(Wider(a, b)))
  ELSE UnsupportedOperand("%", a, b)

\* x^e by repeated multiplication, 0 standing for "beyond IntRange"
\* (x # 0, e >= 0).
RECURSIVE IntPow(_, _)
IntPow(x, e) ==
  IF e = 0 THEN 1
  ELSE LET r == IntPow(x, e - 1)
       IN IF r = 0 \/ Abs(r) > IntRange \div Abs(x) THEN 0 ELSE r * x

PyPow(a, b) ==
  IF IsNumber(a) /\ IsNumber(b)
    THEN IF ~(IsExact(a) /\ IsExact(b)) THEN Ret(Unknown(Wider(a, b)))
         ELSE IF b.d # 1
           \* a fractional exponent: complex for a negative base
           THEN IF a.n < 0 THEN Ret(ComplexV)
                ELSE IF a.n = 0 THEN Ret(Val("float", 0, 1))
                ELSE Ret(Unknown("float"))
         ELSE IF a.n = 0
           THEN IF b.n < 0
                  THEN Raise("ZeroDivisionError",
                             "0.0 cannot be raised to a negative power")
                ELSE Ret(Val(Wider(a, b), IF b.n = 0 THEN 1 ELSE 0, 1))
         ELSE IF Abs(b.n) > IntRange THEN Ret(Unknown(Wider(a, b)))
         ELSE LET pn == IntPow(a.n, Abs(b.n))
                  pd == IntPow(a.d, Abs(b.n))
                  k  == IF b.n < 0 THEN "float" ELSE Wider(a, b)
              IN IF pn = 0 \/ pd = 0 THEN Ret(Unknown(k))
                 ELSE IF b.n < 0 THEN Ret(Frac(k, pd, pn))
                 ELSE Ret(Frac(k, pn, pd))
  ELSE UnsupportedOperand("** or pow()", a, b)

BinaryOp(op, a, b) ==
  CASE op = "+"  -> PyAdd(a, b)
    [] op = "-"  -> PySub(a, b)
    [] op = "*"  -> PyMul(a, b)
    [] op = "/"  -> PyTrueDiv(a, b)
    [] op = "//" -> PyFloorDiv(a, b)
    [] op = "%"  -> PyMod(a, b)
    [] op = "**" -> PyPow(a, b)

UnaryOp(op, a) ==
  IF IsNumber(a)
    THEN IF op = "-" THEN Ret(Val(a.k, -a.n, a.d)) ELSE Ret(a)
  ELSE Raise("TypeError", "bad operand type for unary " \o op \o ": '"
                          \o TypeName(a) \o "'")

(***************************************************************************)
(* The Python tokenizer on the characters an expression can hold: number   *)
(* literals (decinteger, pointfloat), operators by longest match,          *)
(* parentheses, ".", "..." and names.                                      *)
(***************************************************************************)
Tok(t, str, v) == [t |-> t, s |-> str, v |-> v]

\* The first position from i on that holds no character of set.
RunEnd(s, i, set) ==
  CHOOSE j \in i..(Len(s) + 1) :
    /\ \A m \in i..(j - 1) : s[m] \in set
    /\ (j = Len(s) + 1 \/ s[j] \notin set)

\* The value of the digits s[i..j-1] (0 for none).
RECURSIVE DigitsVal(_, _, _)
DigitsVal(s, i, j) ==
  IF j <= i THEN 0 ELSE 10 * DigitsVal(s, i, j - 1) + DigitVal(s[j - 1])

RECURSIVE Pow10(_)
Pow10(k) == IF k = 0 THEN 1 ELSE 10 * Pow10(k - 1)

\* The token that starts at s[i] and the position after it.
NextToken(s, i) ==
  LET c == s[i]
      n == Len(s)
      j == RunEnd(s, i, Digits)
  IN IF c \in Digits \/ (c = "." /\ i < n /\ s[i + 1] \in Digits)
       THEN IF j <= n /\ s[j] = "."
              THEN \* pointfloat: [digitpart] "." [digitpart]
                   LET k == RunEnd(s, j + 1, Digits)
                       f == k - (j + 1)
                   IN IF k <= n /\ s[k] \in Letters
                        THEN <<Tok("ERROR", "invalid decimal literal", NoneV), k>>
                        ELSE <<Tok("NUMBER", "",
                                   Frac("float",
                                        DigitsVal(s, i, j) * Pow10(f)
                                          + DigitsVal(s, j + 1, k),
                                        Pow10(f))), k>>
            ELSE IF j <= n /\ s[j] \in Letters
              THEN <<Tok("ERROR", "invalid decimal literal", NoneV), j>>
            ELSE IF j - i > 1 /\ c = "0" /\ \E m \in i..(j - 1) : s[m] # "0"
              THEN <<Tok("ERROR", "leading zeros in decimal integer literals",
                         NoneV), j>>
            ELSE <<Tok("NUMBER", "", IntV(DigitsVal(s, i, j))), j>>
     ELSE IF c = "."
       THEN IF i + 2 <= n /\ s[i + 1] = "." /\ s[i + 2] = "."
              THEN <<Tok("ELLIPSIS", "...", NoneV), i + 3>>
              ELSE <<Tok("DOT", ".", NoneV), i + 1>>
     ELSE IF c \in {"*", "/"} /\ i < n /\ s[i + 1] = c
       THEN <<Tok("OP", c \o c, NoneV), i + 2>>
     ELSE IF c \in {"+", "-", "*", "/", "%"}
       THEN <<Tok("OP", c, NoneV), i + 1>>
     ELSE IF c = "(" THEN <<Tok("LPAR", c, NoneV), i + 1>>
     ELSE IF c = ")" THEN <<Tok("RPAR", c, NoneV), i + 1>>
     ELSE IF c \in Letters
       THEN <<Tok("NAME", c, NoneV), RunEnd(s, i, Letters \cup Digits)>>
     ELSE <<Tok("ERROR", "invalid character", NoneV), i + 1>>

RECURSIVE Tokenize(_, _)
Tokenize(s, i) ==
  IF i > Len(s) THEN <<>>
  ELSE IF s[i] \in Whitespace THEN Tokenize(s, i + 1)
  ELSE With(NextToken(s, i),
            LAMBDA t : IF t[1].t = "ERROR" THEN <<t[1]>>
                       ELSE <<t[1]>> \o Tokenize(s, t[2]))

(***************************************************************************)
(* The Python expression grammar on those tokens (eval compiles the whole  *)
(* string before it runs any of it):                                       *)
(*   sum     := term (('+'|'-') term)*                                     *)
(*   term    := factor (('*'|'/'|'//'|'%') factor)*                        *)
(*   factor  := ('+'|'-') factor | power                                   *)
(*   power   := primary ['**' factor]                                      *)
(*   primary := atom ('(' [['*'|'**'] sum] ')' | '.' NAME)*                *)
(*   atom    := NUMBER | NAME | '...' | '(' ')' | '(' sum ')'              *)
(* A parse result is [ok, node, pos]; a node is a tuple headed by its      *)
(* kind.                                                                   *)
(***************************************************************************)
Parsed(node, pos) == [ok |-> TRUE, node |-> node, pos |-> pos]

NoParse == [ok |-> FALSE, node |-> <<>>, pos |-> 0]

\* p, then f on it unless p is no parse.
Follow(p, f(_)) == IF p.ok THEN f(p) ELSE NoParse

IsTok(toks, i, t) == i <= Len(toks) /\ toks[i].t = t

IsOp(toks, i, ops) == i <= Len(toks) /\ toks[i].t = "OP" /\ toks[i].s \in ops

RECURSIVE ParseSum(_, _), SumRest(_, _, _), ParseTerm(_, _), TermRest(_, _, _),
          ParseFactor(_, _), ParsePower(_, _), ParsePrimary(_, _),
          Trailers(_, _, _), ParseAtom(_, _)

ParseAtom(toks, i) ==
  IF IsTok(toks, i, "NUMBER") THEN Parsed(<<"num", toks[i].v>>, i + 1)
  ELSE IF IsTok(toks, i, "NAME") THEN Parsed(<<"name", toks[i].s>>, i + 1)
  ELSE IF IsTok(toks, i, "ELLIPSIS") THEN Parsed(<<"ellipsis">>, i + 1)
  ELSE IF IsTok(toks, i, "LPAR")
    THEN IF IsTok(toks, i + 1, "RPAR") THEN Parsed(<<"tuple">>, i + 2)
         ELSE Follow(ParseSum(toks, i + 1),
                     LAMBDA e : IF IsTok(toks, e.pos, "RPAR")
                                  THEN Parsed(e.node, e.pos + 1)
                                  ELSE NoParse)
  ELSE NoParse

Trailers(toks, i, left) ==
  IF IsTok(toks, i, "LPAR")
    THEN IF IsTok(toks, i + 1, "RPAR")
           THEN Trailers(toks, i + 2, <<"call", left, "none", <<>>>>)
         ELSE With(IsOp(toks, i + 1, {"*", "**"}),
                   LAMBDA star :
                     Follow(ParseSum(toks, IF star THEN i + 2 ELSE i + 1),
                            LAMBDA a :
                              IF IsTok(toks, a.pos, "RPAR")
                                THEN Trailers(toks, a.pos + 1,
                                              <<"call", left,
                                                IF star THEN toks[i + 1].s
                                                ELSE "arg",
                                                a.node>>)
                                ELSE NoParse))
  ELSE IF IsTok(toks, i, "DOT")
    THEN IF IsTok(toks, i + 1, "NAME")
           THEN Trailers(toks, i + 2, <<"attr", left, toks[i + 1].s>>)
           ELSE NoParse
  ELSE Parsed(left, i)

ParsePrimary(toks, i) ==
  Follow(ParseAtom(toks, i), LAMBDA a : Trailers(toks, a.pos, a.node))

ParsePower(toks, i) ==
  Follow(ParsePrimary(toks, i),
         LAMBDA b :
           IF IsOp(toks, b.pos, {"**"})
             THEN Follow(ParseFactor(toks, b.pos + 1),
                         LAMBDA e :
                           Parsed(<<"bin", "**", b.node, e.node>>, e.pos))
             ELSE b)

ParseFactor(toks, i) ==
  IF IsOp(toks, i, {"+", "-"})
    THEN Follow(ParseFactor(toks, i + 1),
                LAMBDA f : Parsed(<<"un", toks[i].s, f.node>>, f.pos))
    ELSE ParsePower(toks, i)

TermRest(toks, i, left) ==
  IF IsOp(toks, i, {"*", "/", "//", "%"})
    THEN Follow(ParseFactor(toks, i + 1),
                LAMBDA r :
                  TermRest(toks, r.pos, <<"bin", toks[i].s, left, r.node>>))
    ELSE Parsed(left, i)

ParseTerm(toks, i) ==
  Follow(ParseFactor(toks, i), LAMBDA f : TermRest(toks, f.pos, f.node))

SumRest(toks, i, left) ==
  IF IsOp(toks, i, {"+", "-"})
    THEN Follow(ParseTerm(toks, i + 1),
                LAMBDA r :
                  SumRest(toks, r.pos, <<"bin", toks[i].s, left, r.node>>))
    ELSE Parsed(left, i)

ParseSum(toks, i) ==
  Follow(ParseTerm(toks, i), LAMBDA t : SumRest(toks, t.pos, t.node))

\* compile(source, mode "eval"): the tree of the whole string, or no parse.
Compile(s) ==
  With(Tokenize(s, 1),
       LAMBDA toks :
         Follow(ParseSum(toks, 1),
                LAMBDA e : IF e.pos = Len(toks) + 1 THEN e ELSE NoParse))

(***************************************************************************)
(* Running the compiled expression with no builtins and no names.          *)
(***************************************************************************)
RECURSIVE Run(_)
Run(node) ==
  CASE node[1] = "num" -> Ret(node[2])
    [] node[1] = "name" ->
         Raise("NameError", "name '" \o node[2] \o "' is not defined")
    [] node[1] = "ellipsis" -> Ret(EllipsisV)
    [] node[1] = "tuple" -> Ret(TupleV)
    [] node[1] = "un" ->
         Then(Run(node[3]), LAMBDA x : UnaryOp(node[2], x))
    [] node[1] = "bin" ->
         Then(Run(node[3]),
              LAMBDA l : Then(Run(node[4]),
                              LAMBDA r : BinaryOp(node[2], l, r)))
    [] node[1] = "attr" ->
         Then(Run(node[2]),
              LAMBDA x :
                Raise("AttributeError", "'" \o TypeName(x)
                        \o "' object has no attribute '" \o node[3] \o "'"))
    [] node[1] = "call" ->
         Then(Run(node[2]),
              LAMBDA f :
                Then(IF node[3] = "none" THEN Ret(NoneV) ELSE Run(node[4]),
                     LAMBDA a :
                       IF node[3] = "*" /\ a.k # "tuple"
                         THEN Raise("TypeError",
                                    "argument after * must be an iterable, not "
                                      \o TypeName(a))
                       ELSE IF node[3] = "**"
                         THEN Raise("TypeError",
                                    "argument after ** must be a mapping, not "
                                      \o TypeName(a))
                       ELSE Raise("TypeError", "'" \o TypeName(f)
                                    \o "' object is not callable")))

\* eval(expression, {"__builtins__": {}}, {})
PyEval(s) ==
  With(Compile(s),
       LAMBDA c : IF c.ok THEN Run(c.node)
                  ELSE Raise("SyntaxError", "invalid syntax"))

(***************************************************************************)
(* Exceptions: the classes the code can meet and what an except clause     *)
(* catches.                                                                *)
(***************************************************************************)
Bases(exc) ==
  CASE exc \in {"ZeroDivisionError", "OverflowError"} ->
         {exc, "ArithmeticError", "Exception", "BaseException"}
    [] exc \in {"KeyboardInterrupt", "SystemExit"} -> {exc, "BaseException"}
    [] OTHER -> {exc, "Exception", "BaseException"}

Catches(classes, exc) == Bases(exc) \cap classes # {}

(***************************************************************************)
(* CalculationResult and the helpers of calculate.                         *)
(***************************************************************************)
\* result="" of a failed CalculationResult
EmptyResult == Val("str", 0, 1)

\* A non-empty str passed where a number is expected (its text is not kept).
StrV == Val("str", 1, 1)

\* An operation label: a text, and for a conversion the value formatted
\* into it and the text after the value.
Label(text, value, tail) == [text |-> text, value |-> value, tail |-> tail]

Plain(text) == Label(text, NoneV, "")

\* A result whose operation label carries the time of the call.
CalculationResultStamped(expression, result, operation, timestamp, success, message) ==
  [expression |-> expression, result |-> result,
   operation |-> Label(operation.text, IntV(timestamp), operation.tail),
   timestamp |-> timestamp, success |-> success, error_message |-> message]

CalculationResult(expression, result, operation, timestamp, success, message) ==
  [expression |-> expression, result |-> result, operation |-> operation,
   timestamp |-> timestamp, success |-> success, error_message |-> message]

\* re.sub(r'\s+', '', expression), then the three replacements.
CleanExpression(expression) ==
  LET clean == SelectSeq(expression, LAMBDA c : c \notin Whitespace)
  IN Replace(Replace(Replace(clean, TimesSign, <<"*">>), DivSign, <<"/">>),
             "^", <<"*", "*">>)

ValidChars == Digits \cup {"+", "-", "*", "/", ".", "(", ")", "^", "%"}

OperatorChars == {"+", "-", "*", "/", "^", "%"}

\* re.search(r'[+\-*/^%]{2,}', expression)
ConsecutiveOperators(expression) ==
  \E i \in 1..(Len(expression) - 1) :
    expression[i] \in OperatorChars /\ expression[i + 1] \in OperatorChars

\* _validate_expression without its check for consecutive operators.
ValidateNoOperatorCheck(expression) ==
  IF Count(expression, "(") # Count(expression, ")") THEN FALSE
  ELSE IF \E i \in 1..Len(expression) : expression[i] \notin ValidChars
    THEN FALSE
  ELSE TRUE

\* _validate_expression without its check of the characters.
ValidateNoCharacterCheck(expression) ==
  IF Count(expression, "(") # Count(expression, ")") THEN FALSE
  ELSE IF ConsecutiveOperators(expression) THEN FALSE
  ELSE TRUE

\* _validate_expression without its count of the parentheses.
ValidateNoParenthesisCheck(expression) ==
  IF \E i \in 1..Len(expression) : expression[i] \notin ValidChars
    THEN FALSE
  ELSE IF ConsecutiveOperators(expression) THEN FALSE
  ELSE TRUE

ValidateExpression(expression) ==
  IF Count(expression, "(") # Count(expression, ")") THEN FALSE
  ELSE IF \E i \in 1..Len(expression) : expression[i] \notin ValidChars
    THEN FALSE
  ELSE IF ConsecutiveOperators(expression) THEN FALSE
  ELSE TRUE

\* The classes the except clause of _evaluate_expression names.
EvaluateCatches == {"SyntaxError", "NameError", "ZeroDivisionError"}

EvaluateExpression(expression) ==
  With(PyEval(Replace(expression, "^", <<"*", "*">>)),
       LAMBDA r :
         IF r.tag = "raise"
           THEN IF Catches(EvaluateCatches, r.exc) THEN Ret(NoneV) ELSE r
         ELSE IF IsNumber(r.val) THEN Ret(ToFloat(r.val))
         ELSE Ret(NoneV))

\* An outer except clause that names two classes instead of Exception.
NarrowBoundaryCatches == {"ValueError", "ArithmeticError"}

\* The classes the outer except clause of each public method names.
BoundaryCatches == {"Exception"}

\* What a run of a public method leaves behind: its outcome, the string (if
\* any) handed to _evaluate_expression, whether a function of the table was
\* invoked and the class of the exception (if any) its outer except clause
\* caught.
Trace(out, evalCalled, evalStr, fnCalled) ==
  [out |-> out, evalCalled |-> evalCalled, evalStr |-> evalStr,
   fnCalled |-> fnCalled, caught |-> ""]

\* The body of calculate's try block.
CalculateTry(etype, expression, now) ==
  IF etype # "str"
    THEN \* re.sub raises in _clean_expression
         Trace(Raise("TypeError", "expected string or bytes-like object"),
               FALSE, <<>>, FALSE)
  ELSE With(CleanExpression(expression),
            LAMBDA clean_expr :
              IF ~ValidateExpression(clean_expr)
                THEN Trace(Ret(CalculationResult(expression, EmptyResult,
                               Plain("validation"), now, FALSE,
                               "Invalid expression format")),
                           FALSE, <<>>, FALSE)
              ELSE With(EvaluateExpression(clean_expr),
                        LAMBDA result :
                          IF result.tag = "raise"
                            THEN Trace(result, TRUE, clean_expr, FALSE)
                          ELSE IF result.val = NoneV
                            THEN Trace(Ret(CalculationResult(
                                             expression, EmptyResult,
                                             Plain("calculation"), now, FALSE,
                                             "Division by zero or invalid operation")),
                                       TRUE, clean_expr, FALSE)
                          ELSE Trace(Ret(CalculationResult(
                                           expression, result.val,
                                           Plain("calculation"), now, TRUE, "")),
                                     TRUE, clean_expr, FALSE)))

\* An outer handler that drops the text of the exception.
BoundaryNoMessage(t, expression, operation, now) ==
  IF t.out.tag = "raise" /\ Catches(BoundaryCatches, t.out.exc)
    THEN [t EXCEPT !.out = Ret(CalculationResult(expression, EmptyResult,
                                 Plain(operation), now, FALSE, "")),
                   !.caught = t.out.exc]
    ELSE t

\* except Exception as e: a failed result carrying str(e).
Boundary(t, expression, operation, now) ==
  IF t.out.tag = "raise" /\ Catches(BoundaryCatches, t.out.exc)
    THEN [t EXCEPT !.out = Ret(CalculationResult(expression, EmptyResult,
                                 Plain(operation), now, FALSE, t.out.msg)),
                   !.caught = t.out.exc]
    ELSE t

\* calculate(expression) at time now; etype is the type of the argument.
Calculate(etype, expression, now) ==
  Boundary(CalculateTry(etype, expression, now), expression, "calculation", now)

(***************************************************************************)
(* scientific_function: the comparisons and conversions of its guards, and *)
(* the functions of the table (math.*, abs, round) on a value.             *)
(***************************************************************************)
\* value < 0 and value <= 0
LessThanZero(v) ==
  IF IsNumber(v)
    THEN Ret(IF v.d # 0 THEN v.n < 0 ELSE v = NegInf)
    ELSE Raise("TypeError", "'<' not supported between instances of '"
                            \o TypeName(v) \o "' and 'int'")

AtMostZero(v) ==
  IF IsNumber(v)
    THEN Ret(IF v.d # 0 THEN v.n <= 0 ELSE v = NegInf)
    ELSE Raise("TypeError", "'<=' not supported between instances of '"
                            \o TypeName(v) \o "' and 'int'")

Floor(v) == v.n \div v.d

Ceil(v) == -((-v.n) \div v.d)

\* The integer part of an exact number, towards zero.
Trunc(v) == IF v.n < 0 THEN Ceil(v) ELSE Floor(v)

\* int(value) of a number
ToInt(v) ==
  IF v = Nan THEN Raise("ValueError", "cannot convert float NaN to integer")
  ELSE IF v \in {Inf, NegInf}
    THEN Raise("OverflowError", "cannot convert float infinity to integer")
  ELSE IF v.d = 0 THEN Ret(Unknown("int"))
  ELSE Ret(IntV(Trunc(v)))

\* value != int(value)
IsIntegral(v) == v.d = 1

\* round(value): to the nearest integer, a tie to the even one.
RoundHalfEven(v) ==
  LET f == Floor(v)
      r == 2 * (v.n - f * v.d)
  IN IF r < v.d THEN f
     ELSE IF r > v.d THEN f + 1
     ELSE IF f % 2 = 0 THEN f ELSE f + 1

\* The largest r with r * r <= x (x >= 0).
ISqrt(x) == CHOOSE r \in 0..x : r * r <= x /\ (r + 1) * (r + 1) > x

IsSquare(x) == ISqrt(x) * ISqrt(x) = x

RECURSIVE Fact(_)
Fact(k) == IF k <= 1 THEN 1 ELSE k * Fact(k - 1)

\* The largest argument whose factorial the model computes.
MaxFact == 12

\* math.exp overflows a double above this argument.
ExpOverflow == 709

DomainError == Raise("ValueError", "math domain error")

NotReal(v) == Raise("TypeError", "must be real number, not " \o TypeName(v))

\* The value (1 for x = 0 in cos and exp, 0 in the others) the functions
\* below take at the one point where it is a fraction.
AtPoint(v, point, value) ==
  IF v.d # 0 /\ v.n = point * v.d THEN Ret(Val("float", value, 1))
  ELSE Ret(Unknown("float"))

\* self.functions[function_name](value)
MathCall(fn, v) ==
  CASE fn \in {"sin", "cos", "tan"} ->
         IF ~IsNumber(v) THEN NotReal(v)
         ELSE IF v = Nan THEN Ret(Nan)
         ELSE IF v \in {Inf, NegInf} THEN DomainError
         ELSE AtPoint(v, 0, IF fn = "cos" THEN 1 ELSE 0)
    [] fn \in {"asin", "acos"} ->
         IF ~IsNumber(v) THEN NotReal(v)
         ELSE IF v = Nan THEN Ret(Nan)
         ELSE IF v.d = 0 THEN IF v.n = 0 THEN Ret(Unknown("float"))
                              ELSE DomainError
         ELSE IF Abs(v.n) > v.d THEN DomainError
         ELSE IF fn = "asin" THEN AtPoint(v, 0, 0) ELSE AtPoint(v, 1, 0)
    [] fn = "atan" ->
         IF ~IsNumber(v) THEN NotReal(v)
         ELSE IF v = Nan THEN Ret(Nan)
         ELSE AtPoint(v, 0, 0)
    [] fn = "sqrt" ->
         IF ~IsNumber(v) THEN NotReal(v)
         ELSE IF v \in {Nan, Inf} THEN Ret(v)
         ELSE IF v = NegInf THEN DomainError
         ELSE IF v.d = 0 THEN Ret(Unknown("float"))
         ELSE IF v.n < 0 THEN DomainError
         ELSE IF IsSquare(v.n) /\ IsSquare(v.d)
           THEN Ret(Val("float", ISqrt(v.n), ISqrt(v.d)))
         ELSE Ret(Unknown("float"))
    [] fn \in {"log", "log10"} ->
         IF ~IsNumber(v) THEN NotReal(v)
         ELSE IF v \in {Nan, Inf} THEN Ret(v)
         ELSE IF v = NegInf THEN DomainError
         ELSE IF v.d = 0 THEN Ret(Unknown("float"))
         ELSE IF v.n <= 0 THEN DomainError
         ELSE AtPoint(v, 1, 0)
    [] fn = "exp" ->
         IF ~IsNumber(v) THEN NotReal(v)
         ELSE IF v \in {Nan, Inf} THEN Ret(v)
         ELSE IF v = NegInf THEN Ret(Val("float", 0, 1))
         ELSE IF v.d = 0 THEN Ret(Unknown("float"))
         ELSE IF v.n > ExpOverflow * v.d
           THEN Raise("OverflowError", "math range error")
         ELSE AtPoint(v, 0, 1)
    [] fn = "abs" ->
         IF ~IsNumber(v)
           THEN Raise("TypeError", "bad operand type for abs(): '"
                                   \o TypeName(v) \o "'")
         ELSE IF v = NegInf THEN Ret(Inf)
         ELSE Ret(Val(v.k, Abs(v.n), v.d))
    [] fn \in {"floor", "ceil", "round"} ->
         IF ~IsNumber(v)
           THEN IF fn = "round"
                  THEN Raise("TypeError", "type " \o TypeName(v)
                             \o " doesn't define __round__ method")
                  ELSE NotReal(v)
         ELSE IF v.d = 0 THEN ToInt(v)
         ELSE Ret(IntV(CASE fn = "floor" -> Floor(v)
                         [] fn = "ceil" -> Ceil(v)
                         [] fn = "round" -> RoundHalfEven(v)))
    [] fn = "factorial" ->
         IF v.k # "int"
           THEN Raise("TypeError", "'" \o TypeName(v)
                      \o "' object cannot be interpreted as an integer")
         ELSE IF v.d = 0 THEN Ret(Unknown("int"))
         ELSE IF v.n < 0
           THEN Raise("ValueError",
                      "factorial() not defined for negative values")
         ELSE IF v.n > MaxFact THEN Ret(Unknown("int"))
         ELSE Ret(IntV(Fact(v.n)))

\* A failed result that drops the text it is given.
FailedFunctionNoText(function_name, value, now, message) ==
  Ret(CalculationResult(<<function_name, value>>, EmptyResult,
                        Plain("scientific_function"), now, FALSE,
                        "Invalid input"))

FailedFunction(function_name, value, now, message) ==
  Ret(CalculationResult(<<function_name, value>>, EmptyResult,
                        Plain("scientific_function"), now, FALSE, message))

\* scientific_function's try block without its three guards.
ScientificTryNoGuards(function_name, value, now, table) ==
  IF function_name \notin table
    THEN Trace(FailedFunction(function_name, value, now,
                              "Unknown function: " \o function_name),
               FALSE, <<>>, FALSE)
  ELSE With(MathCall(function_name, value),
            LAMBDA result :
              IF result.tag = "raise" THEN Trace(result, FALSE, <<>>, TRUE)
              ELSE Trace(Ret(CalculationResult(<<function_name, value>>,
                               result.val, Plain("scientific_function"),
                               now, TRUE, "")),
                         FALSE, <<>>, TRUE))

\* The body of scientific_function's try block.
ScientificTry(function_name, value, now, table) ==
  IF function_name \notin table
    THEN Trace(FailedFunction(function_name, value, now,
                              "Unknown function: " \o function_name),
               FALSE, <<>>, FALSE)
  ELSE LET neg  == LessThanZero(value)
           npos == AtMostZero(value)
           int  == ToInt(value)
       IN IF function_name = "sqrt" /\ neg.tag = "raise"
            THEN Trace(neg, FALSE, <<>>, FALSE)
          ELSE IF function_name = "sqrt" /\ neg.val
            THEN Trace(FailedFunction(function_name, value, now,
                         "Cannot calculate square root of negative number"),
                       FALSE, <<>>, FALSE)
          ELSE IF function_name = "log" /\ npos.tag = "raise"
            THEN Trace(npos, FALSE, <<>>, FALSE)
          ELSE IF function_name = "log" /\ npos.val
            THEN Trace(FailedFunction(function_name, value, now,
                         "Cannot calculate logarithm of non-positive number"),
                       FALSE, <<>>, FALSE)
          ELSE IF function_name = "factorial" /\ neg.tag = "raise"
            THEN Trace(neg, FALSE, <<>>, FALSE)
          ELSE IF function_name = "factorial" /\ ~neg.val /\ int.tag = "raise"
            THEN Trace(int, FALSE, <<>>, FALSE)
          ELSE IF function_name = "factorial"
                    /\ (neg.val \/ ~IsIntegral(value))
            THEN Trace(FailedFunction(function_name, value, now,
                         "Factorial is only defined for non-negative integers"),
                       FALSE, <<>>, FALSE)
          ELSE LET result == MathCall(function_name, value)
               IN IF result.tag = "raise" THEN Trace(result, FALSE, <<>>, TRUE)
                  ELSE Trace(Ret(CalculationResult(<<function_name, value>>,
                                   result.val, Plain("scientific_function"),
                                   now, TRUE, "")),
                             FALSE, <<>>, TRUE)

\* scientific_function(function_name, value) at time now.
ScientificFunction(function_name, value, now, table) ==
  Boundary(ScientificTry(function_name, value, now, table),
           <<function_name, value>>, "scientific_function", now)

(***************************************************************************)
(* unit_conversion: str.lower, the ten rules in the order the code tries   *)
(* them, and round(result, 6).                                             *)
(***************************************************************************)
LowerChar(c) ==
  CASE c = "A" -> "a" [] c = "B" -> "b" [] c = "C" -> "c" [] c = "D" -> "d"
    [] c = "E" -> "e" [] c = "F" -> "f" [] c = "G" -> "g" [] c = "H" -> "h"
    [] c = "I" -> "i" [] c = "J" -> "j" [] c = "K" -> "k" [] c = "L" -> "l"
    [] c = "M" -> "m" [] c = "N" -> "n" [] c = "O" -> "o" [] c = "P" -> "p"
    [] c = "Q" -> "q" [] c = "R" -> "r" [] c = "S" -> "s" [] c = "T" -> "t"
    [] c = "U" -> "u" [] c = "V" -> "v" [] c = "W" -> "w" [] c = "X" -> "x"
    [] c = "Y" -> "y" [] c = "Z" -> "z" [] OTHER -> c

\* No change of case.
SameCase(s) == s

Lower(s) == [i \in 1..Len(s) |-> LowerChar(s[i])]

Celsius == {<<"c">>, <<"c", "e", "l", "s", "i", "u", "s">>}

Fahrenheit == {<<"f">>, <<"f", "a", "h", "r", "e", "n", "h", "e", "i", "t">>}

Kelvin == {<<"k">>, <<"k", "e", "l", "v", "i", "n">>}

Meters == {<<"m">>, <<"m", "e", "t", "e", "r", "s">>}

Feet == {<<"f", "t">>, <<"f", "e", "e", "t">>}

Kilometers == {<<"k", "m">>, <<"k", "i", "l", "o", "m", "e", "t", "e", "r", "s">>}

Miles == {<<"m", "i">>, <<"m", "i", "l", "e", "s">>}

Kilograms == {<<"k", "g">>, <<"k", "i", "l", "o", "g", "r", "a", "m", "s">>}

Pounds == {<<"l", "b", "s">>, <<"p", "o", "u", "n", "d", "s">>}

Rule(from, to, text, tail) == [from |-> from, to |-> to, text |-> text, tail |-> tail]

\* The if/elif chain, in order.  The degree sign of the labels is written
\* "deg".
Rules ==
  << Rule(Celsius, Fahrenheit, "Temperature conversion: ", "degC to degF"),
     Rule(Fahrenheit, Celsius, "Temperature conversion: ", "degF to degC"),
     Rule(Celsius, Kelvin, "Temperature conversion: ", "degC to K"),
     Rule(Kelvin, Celsius, "Temperature conversion: ", "K to degC"),
     Rule(Meters, Feet, "Length conversion: ", "m to ft"),
     Rule(Feet, Meters, "Length conversion: ", "ft to m"),
     Rule(Kilometers, Miles, "Length conversion: ", "km to mi"),
     Rule(Miles, Kilometers, "Length conversion: ", "mi to km"),
     Rule(Kilograms, Pounds, "Weight conversion: ", "kg to lbs"),
     Rule(Pounds, Kilograms, "Weight conversion: ", "lbs to kg") >>

FloatV(n, d) == Frac("float", n, d)

\* The formula of rule r on value.
Formula(r, value) ==
  CASE r = 1 -> Then(Then(PyMul(value, IntV(9)),
                          LAMBDA x : PyTrueDiv(x, IntV(5))),
                     LAMBDA x : PyAdd(x, IntV(32)))
    [] r = 2 -> Then(Then(PySub(value, IntV(32)),
                          LAMBDA x : PyMul(x, IntV(5))),
                     LAMBDA x : PyTrueDiv(x, IntV(9)))
    [] r = 3 -> PyAdd(value, FloatV(27315, 100))
    [] r = 4 -> PySub(value, FloatV(27315, 100))
    [] r = 5 -> PyMul(value, FloatV(328084, 100000))
    [] r = 6 -> PyTrueDiv(value, FloatV(328084, 100000))
    [] r = 7 -> PyMul(value, FloatV(621371, 1000000))
    [] r = 8 -> PyTrueDiv(value, FloatV(621371, 1000000))
    [] r = 9 -> PyMul(value, FloatV(220462, 100000))
    [] r = 10 -> PyTrueDiv(value, FloatV(220462, 100000))

\* The ndigits of round(result, 6).
RoundDigits == 6

\* k more decimal digits of r / d: <<the digits as a number, the remainder>>.
RECURSIVE Decimals(_, _, _, _)
Decimals(r, d, k, acc) ==
  IF k = 0 THEN <<acc, r>>
  ELSE Decimals((r * 10) % d, d, k - 1, acc * 10 + (r * 10) \div d)

\* No rounding.
Unrounded(v) == v

\* round(v, 6) of a float: to the nearest multiple of 10^-6, a tie to the
\* even one.  (Where the fraction is an exact tie, Python rounds the double
\* next to it, which lies on one side; the values the model converts have
\* no ties.)
Round6(v) ==
  IF v.d = 0 THEN v
  ELSE LET a    == Abs(v.n)
           dr   == Decimals(a % v.d, v.d, RoundDigits, 0)
           unit == (a \div v.d) * Pow10(RoundDigits) + dr[1]
           up   == 2 * dr[2] > v.d \/ (2 * dr[2] = v.d /\ unit % 2 = 1)
       IN Frac("float", Sign(v.n) * (IF up THEN unit + 1 ELSE unit),
               Pow10(RoundDigits))

\* The text of a sequence of characters, as f"{from_unit}" formats it.
RECURSIVE Join(_)
Join(s) == IF s = <<>> THEN "" ELSE Head(s) \o Join(Tail(s))

UnitText(type, unit) == IF type = "str" THEN Join(unit) ELSE "None"

NoLower(type) ==
  Raise("AttributeError", "'" \o type \o "' object has no attribute 'lower'")

\* The rules whose source aliases hold from_unit.lower().
FromRules(from_unit) == {r \in 1..Len(Rules) : Lower(from_unit) \in Rules[r].from}

\* A chain that looks at the source unit only.
MatchingAnyTarget(from_unit, to_unit) == FromRules(from_unit)

\* The rules the if/elif chain can take for the pair.
Matching(from_unit, to_unit) ==
  {r \in FromRules(from_unit) : Lower(to_unit) \in Rules[r].to}

\* The body of unit_conversion's try block; ftype and ttype are the types
\* of the two unit arguments.
ConversionTry(value, ftype, from_unit, ttype, to_unit, now) ==
  LET expression == <<value, from_unit, to_unit>>
  IN IF ftype # "str" THEN Trace(NoLower(ftype), FALSE, <<>>, FALSE)
     ELSE IF FromRules(from_unit) # {} /\ ttype # "str"
       THEN Trace(NoLower(ttype), FALSE, <<>>, FALSE)
     ELSE IF FromRules(from_unit) = {} \/ Matching(from_unit, to_unit) = {}
       THEN Trace(Ret(CalculationResult(expression, EmptyResult,
                        Plain("unit_conversion"), now, FALSE,
                        "Unsupported conversion: "
                          \o UnitText(ftype, from_unit) \o " to "
                          \o UnitText(ttype, to_unit))),
                  FALSE, <<>>, FALSE)
     ELSE LET r      == CHOOSE x \in Matching(from_unit, to_unit) :
                          \A y \in Matching(from_unit, to_unit) : x <= y
              result == Formula(r, value)
          IN IF result.tag = "raise" THEN Trace(result, FALSE, <<>>, FALSE)
             ELSE Trace(Ret(CalculationResult(expression, Round6(result.val),
                              Label(Rules[r].text, value, Rules[r].tail),
                              now, TRUE, "")),
                        FALSE, <<>>, FALSE)

\* unit_conversion(value, from_unit, to_unit) at time now.
UnitConversion(value, ftype, from_unit, ttype, to_unit, now) ==
  Boundary(ConversionTry(value, ftype, from_unit, ttype, to_unit, now),
           <<value, from_unit, to_unit>>, "unit_conversion", now)

(***************************************************************************)
(* The state machine.  A state holds one call on a CalculatorTool: the     *)
(* arguments it is given (chosen in Init), and once it has run (pc =       *)
(* "done") its outcome, the string handed to _evaluate_expression,         *)
(* whether a function of the table was invoked and the exception its outer *)
(* handler caught.  shape records how the expression of a calculate call   *)
(* was written (operands and operators); no action reads it.  history and  *)
(* threads belong to the session and to the concurrent callers further     *)
(* down and stay empty here.                                               *)
(***************************************************************************)
MaxLen == 3

Alphabet ==
  {"0", "2", "3", ".", "+", "-", "*", "/", "%", "(", ")", "^",
   TimesSign, DivSign, " ", "a"}

RawStrings == UNION {[1..n -> Alphabet] : n \in 0..MaxLen}

\* Expressions of the specification, the claims and the usage example that
\* are longer than MaxLen.
Examples ==
  { <<"2", " ", "+", " ", "+", " ", "3">>,
    <<"3", " ", "*", " ", "-", "2">>,
    <<")", "2", "+", "3", "(">>,
    <<"(", "2", "+", "3">>,
    <<"2", "+", "3", ")">>,
    <<"2", "*", "(", "+", "3", ")">>,
    <<"1", ".", "2", ".", "3">>,
    <<"2", "(", "3", ")">>,
    <<"1", "0", " ", "/", " ", "2", " ", "+", " ", "5">>,
    <<"2", " ", "*", "*", " ", "3", " ", "*", "*", " ", "2">>,
    <<"1", "5", " ", "%", " ", "4">>,
    <<"2", "0", " ", "/", "/", " ", "3">>,
    <<"s", "q", "r", "t", "(", "1", "6", ")">>,
    <<"(", "2", "+", "3", ")", "*", "(", "4", "-", "0", ")">>,
    <<"(", "(", "2", ")", ")", "(", "3", ")">> }

Literals == {<<"0">>, <<"2">>, <<"3">>, <<"4">>}

BinaryOperators ==
  {<<"+">>, <<"-">>, <<"*">>, <<"/">>, <<"*", "*">>, <<"%">>, <<"/", "/">>}

Glyphs == {<<TimesSign>>, <<DivSign>>, <<"^">>}

NoShape ==
  [kind |-> "none", a |-> <<>>, op1 |-> <<>>, b |-> <<>>, op2 |-> <<>>,
   c |-> <<>>, paren |-> "none", spaced |-> FALSE]

\* a op b
BinShapes ==
  [kind : {"bin"}, a : Literals, op1 : BinaryOperators \cup Glyphs,
   b : Literals, op2 : {<<>>}, c : {<<>>}, paren : {"none"},
   spaced : BOOLEAN]

\* a op1 b op2 c, bare or with one pair of parentheses
ChainShapes ==
  [kind : {"chain"}, a : Literals, op1 : BinaryOperators, b : Literals,
   op2 : BinaryOperators, c : Literals, paren : {"none", "left", "right"},
   spaced : {TRUE}]

Shapes == BinShapes \cup ChainShapes

\* The expression a shape is written as.
Render(sh) ==
  LET sp == IF sh.spaced THEN <<" ">> ELSE <<>>
      l  == IF sh.paren = "left" THEN <<"(">> ELSE <<>>
      lc == IF sh.paren = "left" THEN <<")">> ELSE <<>>
      r  == IF sh.paren = "right" THEN <<"(">> ELSE <<>>
      rc == IF sh.paren = "right" THEN <<")">> ELSE <<>>
  IN IF sh.kind = "bin" THEN sh.a \o sp \o sh.op1 \o sp \o sh.b
     ELSE l \o sh.a \o sp \o sh.op1 \o sp \o r \o sh.b \o lc
            \o sp \o sh.op2 \o sp \o sh.c \o rc

NoOutcome == Ret(NoneV)

NoCall ==
  [op |-> "none", etype |-> "str", expression |-> <<>>,
   function_name |-> "", value |-> NoneV,
   ftype |-> "str", from_unit |-> <<>>, ttype |-> "str", to_unit |-> <<>>]

CallCalculate(etype, expression) ==
  [NoCall EXCEPT !.op = "calculate", !.etype = etype,
                 !.expression = expression]

CallScientific(function_name, value) ==
  [NoCall EXCEPT !.op = "scientific_function",
                 !.function_name = function_name, !.value = value]

CallConversion(value, ftype, from_unit, ttype, to_unit) ==
  [NoCall EXCEPT !.op = "unit_conversion", !.value = value,
                 !.ftype = ftype, !.from_unit = from_unit,
                 !.ttype = ttype, !.to_unit = to_unit]

OperationsTable == {"+", "-", "*", "/", "**", "%", "//"}

FunctionsTable ==
  {"sin", "cos", "tan", "asin", "acos", "atan", "sqrt", "log", "log10",
   "exp", "abs", "floor", "ceil", "round", "factorial"}

FunctionNames == FunctionsTable \cup {"bogus", "unknown_func", "SQRT"}

Values ==
  {IntV(-42), IntV(-4), IntV(-1), IntV(0), IntV(1), IntV(2), IntV(5),
   IntV(16), IntV(45), IntV(100),
   FloatV(-5, 2), FloatV(0, 1), FloatV(1, 2), FloatV(5, 2), FloatV(5, 1),
   FloatV(16, 1), FloatV(1000, 1), Nan, Inf, NegInf, StrV, NoneV}

UnitNames ==
  UNION {Celsius, Fahrenheit, Kelvin, Meters, Feet, Kilometers, Miles,
         Kilograms, Pounds}
    \cup {<<"C">>, <<"F">>, <<"K">>, <<"C", "e", "l", "s", "i", "u", "s">>,
          <<"F", "T">>, <<"K", "m">>, <<"L", "B", "S">>, <<"k", "G">>,
          <<"x">>, <<"c", "e", "l", "c", "i", "u", "s">>, <<"l", "b">>, <<>>}

\* A unit argument: a str, or None.
UnitArgs == {<<"str", u>> : u \in UnitNames} \cup {<<"NoneType", <<>>>>}

ConversionValues ==
  {IntV(-40), IntV(0), IntV(5), IntV(100), FloatV(9, 4), FloatV(75, 2),
   Huge, Nan, Inf, StrV, NoneV}

Calls ==
  {<<CallCalculate("str", e), NoShape>> : e \in RawStrings \cup Examples}
    \cup {<<CallCalculate("str", Render(sh)), sh>> : sh \in Shapes}
    \cup {<<CallCalculate("NoneType", <<>>), NoShape>>}
    \cup {<<CallScientific(f, v), NoShape>> : f \in FunctionNames, v \in Values}
    \cup {<<CallConversion(v, f[1], f[2], t[1], t[2]), NoShape>> :
            v \in ConversionValues, f \in UnitArgs, t \in UnitArgs}

\* The clock readings a call can see.
MaxClock == 1

(***************************************************************************)
(* The endpoints calculate_expression, apply_scientific_function and       *)
(* convert_units of tools.py: each makes a CalculatorTool, calls the       *)
(* method and turns the CalculationResult into a dictionary.  c is the     *)
(* call and o the outcome of the method.                                   *)
(***************************************************************************)
NoResponse == Ret(NoneV)

\* {"success": False, "error": ...}
Refusal(error) == [success |-> FALSE, error |-> error]

\* The "data" dictionary; its first key is named after the endpoint.
Data(c, result) ==
  CASE c.op = "calculate" ->
         [expression |-> result.expression, result |-> result.result,
          operation |-> result.operation, timestamp |-> result.timestamp]
    [] c.op = "scientific_function" ->
         [function |-> <<c.function_name, c.value>>,
          result |-> result.result,
          operation |-> result.operation, timestamp |-> result.timestamp]
    [] c.op = "unit_conversion" ->
         [conversion |-> <<c.value, c.from_unit, c.to_unit>>,
          result |-> result.result,
          operation |-> result.operation, timestamp |-> result.timestamp]

\* except Exception as e of an endpoint on the outcome o of its try block.
EndpointBoundary(o) ==
  IF o.tag = "raise" /\ Catches({"Exception"}, o.exc)
    THEN Ret(Refusal(o.msg))
    ELSE o

\* An endpoint that tests the result object instead of result.success.
ResponseForAnyResult(c, o) ==
  EndpointBoundary(Then(o, LAMBDA result :
    Ret([success |-> TRUE, data |-> Data(c, result)])))

Response(c, o) ==
  EndpointBoundary(Then(o, LAMBDA result :
    IF result.success
      THEN Ret([success |-> TRUE, data |-> Data(c, result)])
      ELSE Ret(Refusal(result.error_message))))

(***************************************************************************)
(* The weather endpoint and the transcript tool at rest: the environment   *)
(* of the process, no WeatherTool, no request sent, no forecast asked      *)
(* for; no transcript tool, no audio file, no transcript call.             *)
(***************************************************************************)
NoTool == [api_key |-> "None", base_url |-> "None", init |-> "not called"]

NoForecast ==
  [pc |-> "idle", location |-> "", days |-> NoneV, units |-> ""]

\* temp_audio.mp3 is not in the working directory.  A file that is there
\* holds the audio of a video, written by the download of a caller.
NoFile == [by |-> 0, video |-> ""]

OtherToolsIdle ==
  /\ env = [WEATHERAPI_KEY |-> "None", WEATHERAPI_BASE_URL |-> "None"]
  /\ weather_tool = NoTool
  /\ requests = <<>>
  /\ forecast = NoForecast
  /\ tools = <<>>
  /\ disk = NoFile
  /\ jobs = <<>>
  /\ calls = 0

Init ==
  /\ pc = "ready"
  /\ \E c \in Calls : call = c[1] /\ shape = c[2]
  /\ res = NoOutcome
  /\ evalArg = [called |-> FALSE, str |-> <<>>]
  /\ mathArg = FALSE
  /\ caught = ""
  /\ operations = OperationsTable
  /\ functions = FunctionsTable
  /\ clock \in 0..MaxClock
  /\ history = <<>>
  /\ threads = <<>>
  /\ response = NoResponse
  /\ OtherToolsIdle

Finish(t) ==
  /\ res' = t.out
  /\ evalArg' = [called |-> t.evalCalled, str |-> t.evalStr]
  /\ mathArg' = t.fnCalled
  /\ caught' = t.caught
  /\ pc' = "done"
  /\ response' = Response(call, t.out)
  /\ UNCHANGED <<call, shape, operations, functions, clock, history, threads,
                 otherTools>>

DoCalculate ==
  /\ pc = "ready"
  /\ call.op = "calculate"
  /\ Finish(Calculate(call.etype, call.expression, clock))

DoScientificFunction ==
  /\ pc = "ready"
  /\ call.op = "scientific_function"
  /\ Finish(ScientificFunction(call.function_name, call.value, clock,
                               functions))

DoUnitConversion ==
  /\ pc = "ready"
  /\ call.op = "unit_conversion"
  /\ Finish(UnitConversion(call.value, call.ftype, call.from_unit,
                           call.ttype, call.to_unit, clock))

Next == DoCalculate \/ DoScientificFunction \/ DoUnitConversion

Spec == Init /\ [][Next]_vars

(***************************************************************************)
(* The statements checked.  Done(op) holds once a call of method op has    *)
(* run; Failed holds when it returned a CalculationResult with success =   *)
(* False.                                                                  *)
(***************************************************************************)
Done(op) == pc = "done" /\ call.op = op

Returned == res.tag = "ret"

Succeeded == Returned /\ res.val.success

Failed == Returned /\ ~res.val.success

WithoutWhitespace(e) == SelectSeq(e, LAMBDA c : c \notin Whitespace)

\* The number a literal of a shape denotes.
LiteralValue(l) == IntV(DigitsVal(l, 1, Len(l) + 1))

Power == <<"*", "*">>

\* Standard precedence: ** above * / % //, these above + -.
Precedence(op) ==
  IF op \in {<<"+">>, <<"-">>} THEN 1 ELSE IF op = Power THEN 3 ELSE 2

ApplyOperator(op, x, y) == BinaryOp(Join(op), x, y)

\* a op1 b op2 c groups to the right when parenthesised so, or, bare, when
\* op2 binds tighter or both are the right-associative **.
GroupsRight(sh) ==
  \/ sh.paren = "right"
  \/ /\ sh.paren = "none"
     /\ \/ Precedence(sh.op2) > Precedence(sh.op1)
        \/ (sh.op1 = Power /\ sh.op2 = Power)

\* The value of a shape by standard precedence and associativity (a raise
\* where a divisor is zero).
StandardValue(sh) ==
  LET a == LiteralValue(sh.a)
      b == LiteralValue(sh.b)
      c == LiteralValue(sh.c)
  IN IF sh.kind = "bin" THEN ApplyOperator(sh.op1, a, b)
     ELSE IF GroupsRight(sh)
       THEN Then(ApplyOperator(sh.op2, b, c),
                 LAMBDA y : ApplyOperator(sh.op1, a, y))
     ELSE Then(ApplyOperator(sh.op1, a, b),
               LAMBDA x : ApplyOperator(sh.op2, x, c))

\* C1: every well-formed expression of literals, the binary operators
\* + - * / ** % // and parentheses, with no zero divisor, evaluates
\* successfully to its value by standard precedence and associativity.
C1_StandardPrecedence ==
  (/\ Done("calculate")
   /\ shape.kind # "none"
   /\ shape.op1 \in BinaryOperators
   /\ StandardValue(shape).tag = "ret")
    => (Succeeded /\ res.val.result = ToFloat(StandardValue(shape).val))

DivisionOperators == {<<"/">>, <<"%">>, <<"/", "/">>}

\* C2: "a / 0", "a % 0" and "a // 0" each return a failed result of the
\* division-by-zero kind, not a validation failure.
C2_ZeroDivisorFailsAsDivision ==
  (/\ Done("calculate")
   /\ shape.kind = "bin"
   /\ shape.op1 \in DivisionOperators
   /\ LiteralValue(shape.b).n = 0)
    => (Failed /\ res.val.operation # Plain("validation"))

\* C3: "a / b", "a % b" and "a // b" with b nonzero return success.
C3_NonzeroDivisorSucceeds ==
  (/\ Done("calculate")
   /\ shape.kind = "bin"
   /\ shape.op1 \in DivisionOperators
   /\ LiteralValue(shape.b).n # 0)
    => Succeeded

\* C4: a result with success = False has an empty result and a non-empty
\* error_message, on every failure path of the three methods.
C4_FailureHasMessageNoResult ==
  (pc = "done" /\ Failed)
    => (res.val.result = EmptyResult /\ res.val.error_message # "")

\* A failure that went through calculate's catch-all handler.
C4_Witness ==
  /\ Done("calculate")
  /\ caught = "TypeError"
  /\ Failed
  /\ res.val.error_message = "'int' object is not callable"

\* The internal failures the claim names: asin(2), log10(0), the factorial
\* guard on NaN and on infinity, a unit argument that is no string.
InternalFailures ==
  {CallScientific("asin", IntV(2)), CallScientific("log10", IntV(0)),
   CallScientific("factorial", Nan), CallScientific("factorial", Inf),
   CallConversion(IntV(5), "NoneType", <<>>, "str", <<"f">>),
   CallConversion(IntV(5), "str", <<"c">>, "NoneType", <<>>),
   CallCalculate("NoneType", <<>>)}

\* C5: every call returns a CalculationResult: no exception leaves a public
\* method, and a call in which one was raised returns success = False.
C5_NothingPropagates ==
  pc = "done"
    => /\ Returned
       /\ caught # "" => Failed
       /\ call \in InternalFailures => caught # ""

C5_Witness ==
  /\ pc = "done"
  /\ call = CallScientific("asin", IntV(2))
  /\ caught = "ValueError"
  /\ Failed

\* Grammatically malformed expressions: a dangling operator, a missing or
\* misordered parenthesis, an empty atom.
Malformed ==
  {l \o <<o>> : l \in Literals, o \in {"+", "-", "*", "/", "%"}}
    \cup {<<"(">> \o l : l \in Literals}
    \cup {<<")">> \o l \o <<"(">> : l \in Literals}
    \cup {<<"(", ")">>, <<")", "2", "+", "3", "(">>}

\* The failed result calculate gives for a division by zero.
DivisionByZeroFailure == Calculate("str", <<"2", "/", "0">>, 0).out.val

\* C6: the failed result for a malformed expression differs, in its
\* operation label or its message, from the one for a division by zero.
C6_SyntaxFailureDistinct ==
  (Done("calculate") /\ call.expression \in Malformed)
    => /\ Failed
       /\ \/ res.val.operation # DivisionByZeroFailure.operation
          \/ res.val.error_message # DivisionByZeroFailure.error_message

ClaimOperatorChars == {"+", "-", "*", "/", "%", "^"}

AdjacentOperators(e) ==
  LET w == WithoutWhitespace(e)
  IN \E i \in 1..(Len(w) - 1) :
       w[i] \in ClaimOperatorChars /\ w[i + 1] \in ClaimOperatorChars

GlyphOperator(g) ==
  CASE g = <<TimesSign>> -> "*" [] g = <<DivSign>> -> "/" [] g = <<"^">> -> "**"

\* C8: the multiplication sign, the division sign and ^ act as * / and **:
\* "a glyph b" succeeds with the product, the quotient (b nonzero), the
\* power.
C8_GlyphsActAsOperators ==
  (/\ Done("calculate")
   /\ shape.kind = "bin"
   /\ shape.op1 \in Glyphs
   /\ (shape.op1 = <<DivSign>> => LiteralValue(shape.b).n # 0))
    => /\ Succeeded
       /\ res.val.result =
            ToFloat(BinaryOp(GlyphOperator(shape.op1), LiteralValue(shape.a),
                             LiteralValue(shape.b)).val)

\* The closed character set of the claim.
ClosedSet == Digits \cup {".", "+", "-", "*", "/", "(", ")", "%", "^"}

\* A character that is outside the closed set after whitespace is stripped
\* and the two glyphs are normalised.
HasForeignCharacter(e) ==
  \E i \in 1..Len(e) :
    e[i] \notin ClosedSet \cup Whitespace \cup {TimesSign, DivSign}

RECURSIVE Depth(_, _)
Depth(e, i) ==
  IF i = 0 THEN 0
  ELSE Depth(e, i - 1)
         + (IF e[i] = "(" THEN 1 ELSE IF e[i] = ")" THEN -1 ELSE 0)

Balanced(e) ==
  Depth(e, Len(e)) = 0 /\ \A i \in 1..Len(e) : Depth(e, i) >= 0

\* C10: an expression whose parentheses are not properly balanced never
\* returns success; unequal counts of "(" and ")" fail in validation.
C10_UnbalancedNeverSucceeds ==
  (Done("calculate") /\ call.etype = "str" /\ ~Balanced(call.expression))
    => /\ Failed
       /\ Depth(call.expression, Len(call.expression)) # 0
            => (res.val.operation = Plain("validation") /\ ~evalArg.called)

\* Equal counts, a ")" before its "(": rejected by the evaluation.
C10_Witness ==
  /\ Done("calculate")
  /\ call.expression = <<")", "2", "+", "3", "(">>
  /\ evalArg.called
  /\ Failed

(***************************************************************************)
(* scientific_function.                                                    *)
(***************************************************************************)
\* The 15 registered names.
Registered ==
  {"sin", "cos", "tan", "asin", "acos", "atan", "sqrt", "log", "log10",
   "exp", "abs", "floor", "ceil", "round", "factorial"}

\* C11: a name outside the 15 registered functions returns, for every value,
\* a failed result whose message names that name, and no function of the
\* table is invoked.
C11_UnknownFunctionNamed ==
  (Done("scientific_function") /\ call.function_name \notin Registered)
    => /\ Failed
       /\ res.val.error_message = "Unknown function: " \o call.function_name
       /\ ~mathArg
       /\ caught = ""

\* An unknown name with a value no function would accept.
C11_Witness ==
  /\ Done("scientific_function")
  /\ call.function_name = "bogus"
  /\ call.value = NoneV
  /\ Failed
  /\ res.val.error_message = "Unknown function: bogus"

\* A finite or infinite number below zero, at most zero.
Negative(v) == IsNumber(v) /\ (v = NegInf \/ (v.d # 0 /\ v.n < 0))

NonPositive(v) == Negative(v) \/ (IsExact(v) /\ v.n = 0)

\* A finite number with a fractional part.
Fractional(v) == IsExact(v) /\ v.d # 1

\* The message of the guard that stops the call, "" where none does.
GuardMessage(fn, v) ==
  IF fn = "sqrt" /\ Negative(v)
    THEN "Cannot calculate square root of negative number"
  ELSE IF fn = "log" /\ NonPositive(v)
    THEN "Cannot calculate logarithm of non-positive number"
  ELSE IF fn = "factorial" /\ (Negative(v) \/ Fractional(v))
    THEN "Factorial is only defined for non-negative integers"
  ELSE ""

\* C12: sqrt of a value below zero, log of a value at most zero and
\* factorial of a value below zero or with a fractional part return the
\* guard's failed result, and the function of the table is never invoked on
\* the value; factorial of NaN or of an infinity fails as well without the
\* function being invoked.
C12_GuardsBeforeFunction ==
  /\ (Done("scientific_function")
        /\ GuardMessage(call.function_name, call.value) # "")
       => /\ Failed
          /\ res.val.error_message
               = GuardMessage(call.function_name, call.value)
          /\ ~mathArg
  /\ (Done("scientific_function") /\ call.function_name = "factorial"
        /\ call.value \in {Nan, Inf, NegInf})
       => (Failed /\ ~mathArg)

C12_Witness ==
  /\ Done("scientific_function")
  /\ call.function_name = "sqrt"
  /\ call.value = IntV(-4)
  /\ Failed
  /\ ~mathArg

\* C13: factorial of a non-negative integral number n, an int or a float,
\* returns success with n!.
C13_FactorialOfIntegral ==
  (/\ Done("scientific_function")
   /\ call.function_name = "factorial"
   /\ IsExact(call.value)
   /\ call.value.d = 1
   /\ call.value.n \in 0..MaxFact)
    => (Succeeded /\ res.val.result.n = Fact(call.value.n)
                  /\ res.val.result.d = 1)

(***************************************************************************)
(* unit_conversion.  The spellings of each unit are listed here one by     *)
(* one, apart from the alias sets and the lower-casing of the model.       *)
(***************************************************************************)
\* The unit a name denotes, "none" for a name of no unit.
UnitOf(u) ==
  CASE u \in {<<"c">>, <<"C">>, <<"c", "e", "l", "s", "i", "u", "s">>,
              <<"C", "e", "l", "s", "i", "u", "s">>} -> "C"
    [] u \in {<<"f">>, <<"F">>,
              <<"f", "a", "h", "r", "e", "n", "h", "e", "i", "t">>} -> "F"
    [] u \in {<<"k">>, <<"K">>, <<"k", "e", "l", "v", "i", "n">>} -> "K"
    [] u \in {<<"m">>, <<"m", "e", "t", "e", "r", "s">>} -> "m"
    [] u \in {<<"f", "t">>, <<"F", "T">>, <<"f", "e", "e", "t">>} -> "ft"
    [] u \in {<<"k", "m">>, <<"K", "m">>,
              <<"k", "i", "l", "o", "m", "e", "t", "e", "r", "s">>} -> "km"
    [] u \in {<<"m", "i">>, <<"m", "i", "l", "e", "s">>} -> "mi"
    [] u \in {<<"k", "g">>, <<"k", "G">>,
              <<"k", "i", "l", "o", "g", "r", "a", "m", "s">>} -> "kg"
    [] u \in {<<"l", "b", "s">>, <<"L", "B", "S">>,
              <<"p", "o", "u", "n", "d", "s">>} -> "lbs"
    [] OTHER -> "none"

\* The ten registered directed rules.
RegisteredPairs ==
  {<<"C", "F">>, <<"F", "C">>, <<"C", "K">>, <<"K", "C">>,
   <<"m", "ft">>, <<"ft", "m">>, <<"km", "mi">>, <<"mi", "km">>,
   <<"kg", "lbs">>, <<"lbs", "kg">>}

\* A conversion call whose two units are strings.
ConversionOfNames ==
  Done("unit_conversion") /\ call.ftype = "str" /\ call.ttype = "str"

PairOfCall == <<UnitOf(call.from_unit), UnitOf(call.to_unit)>>

\* C14: with a number as value, unit_conversion succeeds exactly for the
\* ten registered directed pairs; every other pair (Fahrenheit and Kelvin,
\* meters and kilometers, a unit to itself, units of two families, a name
\* of no unit) returns the failed result "Unsupported conversion" naming
\* both units, so none is resolved by chaining two rules.
C14_SuccessIffRegisteredPair ==
  (ConversionOfNames /\ IsNumber(call.value))
    => IF PairOfCall \in RegisteredPairs THEN Succeeded
       ELSE /\ Failed
            /\ res.val.error_message
                 = "Unsupported conversion: " \o Join(call.from_unit)
                     \o " to " \o Join(call.to_unit)

\* Fahrenheit to Kelvin, which two rules chained would reach.
C14_Witness ==
  /\ ConversionOfNames
  /\ call.value = IntV(5)
  /\ call.from_unit = <<"F">>
  /\ call.to_unit = <<"K">>
  /\ Failed
  /\ res.val.error_message = "Unsupported conversion: F to K"

\* The formula of a registered pair on the fraction n/d, as a fraction
\* <<numerator, denominator>>.
ExactResult(pair, n, d) ==
  CASE pair = <<"C", "F">> -> <<9 * n + 160 * d, 5 * d>>
    [] pair = <<"F", "C">> -> <<5 * (n - 32 * d), 9 * d>>
    [] pair = <<"C", "K">> -> <<100 * n + 27315 * d, 100 * d>>
    [] pair = <<"K", "C">> -> <<100 * n - 27315 * d, 100 * d>>
    [] pair = <<"m", "ft">> -> <<328084 * n, 100000 * d>>
    [] pair = <<"ft", "m">> -> <<100000 * n, 328084 * d>>
    [] pair = <<"km", "mi">> -> <<621371 * n, 1000000 * d>>
    [] pair = <<"mi", "km">> -> <<1000000 * n, 621371 * d>>
    [] pair = <<"kg", "lbs">> -> <<220462 * n, 100000 * d>>
    [] pair = <<"lbs", "kg">> -> <<100000 * n, 220462 * d>>

Million == 1000000

\* The whole millionths in the fraction e (e[1] >= 0), and what is left
\* over, in units of 1 / (Million * e[2]).
Millionths(e) ==
  With(Decimals(e[1] % e[2], e[2], 6, 0),
       LAMBDA t : <<(e[1] \div e[2]) * Million + t[1], t[2]>>)

\* r is a multiple of one millionth and no other multiple is nearer to e.
NearestMillionth(r, e) ==
  /\ r.d # 0
  /\ Million % r.d = 0
  /\ With(Millionths(<<Abs(e[1]), e[2]>>),
          LAMBDA m :
            With(Abs(r.n) * (Million \div r.d),
                 LAMBDA u :
                   /\ (r.n # 0 => Sign(r.n) = Sign(e[1]))
                   /\ \/ (u = m[1] /\ 2 * m[2] <= e[2])
                      \/ (u = m[1] + 1 /\ 2 * m[2] >= e[2])))

\* C15: for a value that is a fraction and a registered pair, the result is
\* the pair's formula on the value rounded to 6 decimal places; 0 C is 32 F
\* and 100 C is 212 F.
C15_FormulaRoundedToSix ==
  (ConversionOfNames /\ IsExact(call.value) /\ PairOfCall \in RegisteredPairs)
    => /\ Succeeded
       /\ res.val.result.k = "float"
       /\ NearestMillionth(res.val.result,
                           ExactResult(PairOfCall, call.value.n, call.value.d))
       /\ (PairOfCall = <<"C", "F">> /\ call.value = IntV(0))
            => res.val.result = Val("float", 32, 1)
       /\ (PairOfCall = <<"C", "F">> /\ call.value = IntV(100))
            => res.val.result = Val("float", 212, 1)

\* 37.5 miles are 60.350419 kilometers (60.3504186...).
C15_Witness ==
  /\ ConversionOfNames
  /\ call.value = FloatV(75, 2)
  /\ PairOfCall = <<"mi", "km">>
  /\ Succeeded
  /\ res.val.result = FloatV(60350419, Million)

\* A float that is no infinity and no NaN.
Finite(v) == IsNumber(v) /\ (v.d # 0 \/ v = Huge)

\* |b - x| <= 1e-6 for a result b and a fraction x.
WithinMillionth(b, x) ==
  /\ b.d # 0
  /\ Abs(b.n * x.d - x.n * b.d) <= (b.d * x.d) \div Million

\* The result of converting the Fahrenheit result of this call back.
BackToCelsius ==
  UnitConversion(res.val.result, "str", <<"F">>, "str", <<"C">>, clock).out

\* C16: a finite x converted from Celsius to Fahrenheit and the result
\* converted back is within 1e-6 of x.
C16_RoundTripWithinMillionth ==
  (/\ ConversionOfNames
   /\ PairOfCall = <<"C", "F">>
   /\ Finite(call.value))
    => /\ Succeeded
       /\ BackToCelsius.tag = "ret"
       /\ BackToCelsius.val.success
       /\ call.value.d # 0
       /\ WithinMillionth(BackToCelsius.val.result, call.value)

\* The lower-case short name of a unit; a name of no unit stays.
Canonical(u) ==
  CASE UnitOf(u) = "C" -> <<"c">> [] UnitOf(u) = "F" -> <<"f">>
    [] UnitOf(u) = "K" -> <<"k">> [] UnitOf(u) = "m" -> <<"m">>
    [] UnitOf(u) = "ft" -> <<"f", "t">> [] UnitOf(u) = "km" -> <<"k", "m">>
    [] UnitOf(u) = "mi" -> <<"m", "i">> [] UnitOf(u) = "kg" -> <<"k", "g">>
    [] UnitOf(u) = "lbs" -> <<"l", "b", "s">> [] OTHER -> u

\* The same conversion with both units under their canonical names.
UnderCanonicalNames ==
  UnitConversion(call.value, "str", Canonical(call.from_unit),
                 "str", Canonical(call.to_unit), clock).out

\* C17: the letter case of a unit name and the alias chosen for a unit
\* change neither success nor the result (every spelling gives what the
\* canonical names give), and a name that is no alias after lower-casing
\* matches no rule.
C17_CaseAndAliasInsensitive ==
  ConversionOfNames
    => /\ UnderCanonicalNames.tag = "ret"
       /\ res.val.success = UnderCanonicalNames.val.success
       /\ res.val.result = UnderCanonicalNames.val.result
       /\ ("none" \in {PairOfCall[1], PairOfCall[2]}) => Failed

\* Celsius spelled out with a capital, Fahrenheit as a capital letter.
C17_Witness ==
  /\ ConversionOfNames
  /\ call.value = IntV(100)
  /\ call.from_unit = <<"C", "e", "l", "s", "i", "u", "s">>
  /\ call.to_unit = <<"F">>
  /\ Succeeded
  /\ res.val.result = Val("float", 212, 1)

(***************************************************************************)
(* The grammar of the specification, read over the expression with its     *)
(* whitespace taken out and its glyphs replaced:                           *)
(*   Sum := Product (('+'|'-') Product)*                                   *)
(*   Product := Power (('*'|'/'|'%'|'//') Power)*                          *)
(*   Power := Unary ('**' Power)?      Unary := '-'? Atom                  *)
(*   Atom := NUMBER | '(' Sum ')'                                          *)
(* Each recogniser gives the position after the phrase that starts at i,   *)
(* or 0 when there is none.                                                *)
(***************************************************************************)
At(s, i, c) == i >= 1 /\ i <= Len(s) /\ s[i] = c

RECURSIVE DigitRun(_, _)
DigitRun(s, i) ==
  IF i <= Len(s) /\ s[i] \in Digits THEN DigitRun(s, i + 1) ELSE i

\* A run of digits with at most one decimal point, and at least one digit.
NumberEnd(s, i) ==
  With(DigitRun(s, i), LAMBDA j :
    With(IF At(s, j, ".") THEN DigitRun(s, j + 1) ELSE j, LAMBDA k :
      IF k > i /\ ~(k = i + 1 /\ At(s, i, ".")) THEN k ELSE 0))

RECURSIVE GrammarSum(_, _)
RECURSIVE GrammarSumRest(_, _)
RECURSIVE GrammarProduct(_, _)
RECURSIVE GrammarProductRest(_, _)
RECURSIVE GrammarPower(_, _)

GrammarAtom(s, i) ==
  IF At(s, i, "(")
  THEN With(GrammarSum(s, i + 1), LAMBDA j :
         IF j # 0 /\ At(s, j, ")") THEN j + 1 ELSE 0)
  ELSE NumberEnd(s, i)

GrammarUnary(s, i) == GrammarAtom(s, IF At(s, i, "-") THEN i + 1 ELSE i)

GrammarPower(s, i) ==
  With(GrammarUnary(s, i), LAMBDA j :
    IF j # 0 /\ At(s, j, "*") /\ At(s, j + 1, "*")
    THEN GrammarPower(s, j + 2) ELSE j)

GrammarProductRest(s, j) ==
  IF j = 0 THEN 0
  ELSE IF At(s, j, "/") /\ At(s, j + 1, "/")
       THEN GrammarProductRest(s, GrammarPower(s, j + 2))
  ELSE IF At(s, j, "*") \/ At(s, j, "/") \/ At(s, j, "%")
       THEN GrammarProductRest(s, GrammarPower(s, j + 1))
  ELSE j

GrammarProduct(s, i) == GrammarProductRest(s, GrammarPower(s, i))

GrammarSumRest(s, j) ==
  IF j = 0 THEN 0
  ELSE IF At(s, j, "+") \/ At(s, j, "-")
       THEN GrammarSumRest(s, GrammarProduct(s, j + 1))
  ELSE j

GrammarSum(s, i) == GrammarSumRest(s, GrammarProduct(s, i))

Normalised(e) ==
  Replace(Replace(Replace(WithoutWhitespace(e), TimesSign, <<"*">>),
                  DivSign, <<"/">>), "^", <<"*", "*">>)

Derivable(e) == GrammarSum(Normalised(e), 1) = Len(Normalised(e)) + 1

\* The expressions the specification lists as outside the grammar.
Underivable ==
  { <<"+", "3">>, <<"2", "*", "(", "+", "3", ")">>, <<"2", "(", "3", ")">>,
    <<"(", ")">>, <<>>, <<"2", "+">>, <<"1", ".", "2", ".", "3">> }

\* C21: calculate returns success only for an expression the grammar
\* Sum -> Product -> Power -> Unary -> Atom derives (unary minus only,
\* numbers with at most one decimal point); a unary plus, juxtaposition,
\* empty parentheses, the empty string, a dangling operator and a literal
\* with two decimal points all give a failed result.
C21_SuccessOnlyForGrammar ==
  Done("calculate") /\ call.etype = "str"
    => /\ Succeeded => Derivable(call.expression)
       /\ call.expression \in Underivable => Failed

\* C27: the endpoints calculate_expression, apply_scientific_function and
\* convert_units mirror the CalculationResult of the CalculatorTool call:
\* success = true with the core's result, operation and timestamp exactly
\* when the core result has success = true, otherwise success = false with
\* error equal to the core's error_message; the endpoint never raises.
C27_EndpointsMirrorCore ==
  pc = "done"
    => /\ response.tag = "ret"
       /\ Returned
       /\ response.val.success = res.val.success
       /\ res.val.success
            => /\ response.val.data.result = res.val.result
               /\ response.val.data.operation = res.val.operation
               /\ response.val.data.timestamp = res.val.timestamp
       /\ ~res.val.success
            => response.val = Refusal(res.val.error_message)

\* A conversion answered with data, and a division by zero refused with the
\* core's message.
C27_Witness ==
  \/ /\ Done("unit_conversion") /\ Succeeded
     /\ response.val.success
     /\ response.val.data.result = Val("float", 212, 1)
     /\ response.val.data.operation = res.val.operation
  \/ /\ Done("calculate") /\ Failed
     /\ response.val = Refusal("Division by zero or invalid operation")

(***************************************************************************)
(* A session: one caller making call after call on one CalculatorTool, as  *)
(* the usage example does.  history is the list of the calls that have     *)
(* returned, each with its outcome; the clock never runs backwards.        *)
(***************************************************************************)
\* The keys of self.functions in the order __init__ inserts them.
FunctionOrder ==
  <<"sin", "cos", "tan", "asin", "acos", "atan", "sqrt", "log", "log10",
    "exp", "abs", "floor", "ceil", "round", "factorial">>

\* ", ".join(names)
RECURSIVE JoinNames(_)
JoinNames(names) ==
  IF names = <<>> THEN ""
  ELSE IF Len(names) = 1 THEN names[1]
  ELSE names[1] \o ", " \o JoinNames(Tail(names))

\* get_supported_functions() on a tool with the function table given.
GetSupportedFunctions(table) ==
  [Basic |-> "+, -, *, /, **, %, //",
   Scientific |-> JoinNames(SelectSeq(FunctionOrder, LAMBDA f : f \in table)),
   Units |-> "Temperature (C, F, K), Length (m, ft, km, mi), Weight (kg, lbs)"]

CallSupported == [NoCall EXCEPT !.op = "get_supported_functions"]

\* The calls a session is made of.
SessionCalls ==
  {CallCalculate("str", <<"2", " ", "+", " ", "3">>),
   CallCalculate("str", <<"2", "/", "0">>),
   CallScientific("sqrt", IntV(16)),
   CallConversion(IntV(100), "str", <<"C">>, "str", <<"F">>),
   CallSupported}

\* The number of calls of a session that are kept in history.
MaxCalls == 3

SessionInit ==
  /\ pc = "ready"
  /\ call \in SessionCalls
  /\ shape = NoShape
  /\ res = NoOutcome
  /\ evalArg = [called |-> FALSE, str |-> <<>>]
  /\ mathArg = FALSE
  /\ caught = ""
  /\ operations = OperationsTable
  /\ functions = FunctionsTable
  /\ clock \in 0..MaxClock
  /\ history = <<>>
  /\ threads = <<>>
  /\ response = NoResponse
  /\ OtherToolsIdle

\* A get_supported_functions that takes the last function out of the table.
DoGetSupportedFunctionsPopping ==
  /\ pc = "ready"
  /\ call.op = "get_supported_functions"
  /\ res' = Ret(GetSupportedFunctions(functions))
  /\ functions' = functions \ {"factorial"}
  /\ pc' = "done"
  /\ UNCHANGED <<call, shape, evalArg, mathArg, caught, operations, clock,
                 history, threads, response, otherTools>>

DoGetSupportedFunctions ==
  /\ pc = "ready"
  /\ call.op = "get_supported_functions"
  /\ res' = Ret(GetSupportedFunctions(functions))
  /\ pc' = "done"
  /\ UNCHANGED <<call, shape, evalArg, mathArg, caught, operations, functions,
                 clock, history, threads, response, otherTools>>

\* The call has returned; the caller notes the outcome and, some time
\* later, makes its next call.
NextCall ==
  /\ pc = "done"
  /\ Len(history) < MaxCalls
  /\ history' = Append(history, [call |-> call, out |-> res])
  /\ call' \in SessionCalls
  /\ clock' \in clock..MaxClock
  /\ pc' = "ready"
  /\ res' = NoOutcome
  /\ evalArg' = [called |-> FALSE, str |-> <<>>]
  /\ mathArg' = FALSE
  /\ caught' = ""
  /\ response' = NoResponse
  /\ UNCHANGED <<shape, operations, functions, threads, otherTools>>

SessionNext ==
  \/ DoCalculate
  \/ DoScientificFunction
  \/ DoUnitConversion
  \/ DoGetSupportedFunctions
  \/ NextCall

Session == SessionInit /\ [][SessionNext]_vars

\* What two outcomes of a call are compared in: every field but timestamp
\* (the whole dictionary for get_supported_functions).
Compared(c, o) ==
  IF c.op = "get_supported_functions" \/ o.tag # "ret" THEN o
  ELSE Ret([o.val EXCEPT !.timestamp = 0])

\* The calls that have returned so far, the one just returned included.
Returns ==
  IF pc = "done" THEN Append(history, [call |-> call, out |-> res])
  ELSE history

\* C18: two calls with the same arguments, whatever calls lie between them,
\* return results that agree in every field except timestamp.
C18_SameCallSameResult ==
  \A i, j \in 1..Len(Returns) :
    Returns[i].call = Returns[j].call
      => Compared(Returns[i].call, Returns[i].out)
           = Compared(Returns[j].call, Returns[j].out)

\* The same calculate twice, at two times, another call in between.
C18_Witness ==
  /\ Len(history) = 3
  /\ history[1].call = CallCalculate("str", <<"2", " ", "+", " ", "3">>)
  /\ history[3].call = history[1].call
  /\ history[2].call.op = "scientific_function"
  /\ history[1].out.val.timestamp # history[3].out.val.timestamp
  /\ history[3].out.val.success

\* C19: after any sequence of calls to calculate, scientific_function,
\* unit_conversion and get_supported_functions the two tables are as
\* __init__ built them.
C19_TablesAsConstructed ==
  /\ operations = OperationsTable
  /\ functions = FunctionsTable

\* All four methods have run.
C19_Witness ==
  /\ pc = "done"
  /\ {Returns[i].call.op : i \in 1..Len(Returns)}
       = {"calculate", "scientific_function", "unit_conversion",
          "get_supported_functions"}
  /\ functions = FunctionsTable

(***************************************************************************)
(* Concurrent callers on one shared CalculatorTool.  Each thread makes one *)
(* call, in two steps that other threads' steps can come between: the     *)
(* head of the try block, which leaves its values in the thread's local    *)
(* variables, and the tail, which builds the result from them.  The tool's *)
(* two tables and the clock are the only state the threads share.          *)
(***************************************************************************)
NumThreads == 2

Threads == 1..NumThreads

\* The frame of a thread: where it is in its call, the call's arguments,
\* the local variables clean_expr, result and the branch taken (rule), and
\* what the call returned.  overlapped notes that another thread was inside
\* a call when this one returned.
StartFrame(c) ==
  [pc |-> "start", call |-> c, clean_expr |-> <<>>, result |-> NoneV,
   rule |-> 0, out |-> NoOutcome, overlapped |-> FALSE]

\* Whether the head of a try block returned or raised (stop), what it left
\* behind if so, and the local variables it has assigned.
Reached(stop, t, clean_expr, result, rule) ==
  [stop |-> stop, t |-> t, clean_expr |-> clean_expr, result |-> result,
   rule |-> rule]

Continue(clean_expr, result, rule) ==
  Reached(FALSE, Trace(NoOutcome, FALSE, <<>>, FALSE), clean_expr, result, rule)

Stop(t) == Reached(TRUE, t, <<>>, NoneV, 0)

\* calculate up to the validation: clean, validate.
CalculateHead(etype, expression, now) ==
  IF etype # "str"
    THEN Stop(Trace(Raise("TypeError", "expected string or bytes-like object"),
                    FALSE, <<>>, FALSE))
  ELSE With(CleanExpression(expression),
            LAMBDA clean_expr :
              IF ~ValidateExpression(clean_expr)
                THEN Stop(Trace(Ret(CalculationResult(
                                      expression, EmptyResult,
                                      Plain("validation"), now, FALSE,
                                      "Invalid expression format")),
                                FALSE, <<>>, FALSE))
              ELSE Continue(clean_expr, NoneV, 0))

\* calculate from the evaluation on.
CalculateTail(expression, clean_expr, now) ==
  With(EvaluateExpression(clean_expr),
       LAMBDA result :
         IF result.tag = "raise" THEN Trace(result, TRUE, clean_expr, FALSE)
         ELSE IF result.val = NoneV
           THEN Trace(Ret(CalculationResult(
                            expression, EmptyResult, Plain("calculation"),
                            now, FALSE,
                            "Division by zero or invalid operation")),
                      TRUE, clean_expr, FALSE)
         ELSE Trace(Ret(CalculationResult(
                          expression, result.val, Plain("calculation"),
                          now, TRUE, "")),
                    TRUE, clean_expr, FALSE))

\* One guard of scientific_function: the comparison raised, or the guard
\* applies, or (rest) the next statement runs.
Guard(applies, function_name, value, now, message, rest) ==
  IF applies.tag = "raise" THEN Stop(Trace(applies, FALSE, <<>>, FALSE))
  ELSE IF applies.val
    THEN Stop(Trace(FailedFunction(function_name, value, now, message),
                    FALSE, <<>>, FALSE))
  ELSE rest

\* value < 0 or value != int(value)
NoFactorialArgument(value) ==
  Then(LessThanZero(value),
       LAMBDA neg :
         IF neg THEN Ret(TRUE)
         ELSE Then(ToInt(value), LAMBDA int : Ret(~IsIntegral(value))))

\* scientific_function up to the call of the function: the lookup in the
\* table and the three guards.
ScientificHead(function_name, value, now, table) ==
  IF function_name \notin table
    THEN Stop(Trace(FailedFunction(function_name, value, now,
                                   "Unknown function: " \o function_name),
                    FALSE, <<>>, FALSE))
  ELSE IF function_name = "sqrt"
    THEN Guard(LessThanZero(value), function_name, value, now,
               "Cannot calculate square root of negative number",
               Continue(<<>>, NoneV, 0))
  ELSE IF function_name = "log"
    THEN Guard(AtMostZero(value), function_name, value, now,
               "Cannot calculate logarithm of non-positive number",
               Continue(<<>>, NoneV, 0))
  ELSE IF function_name = "factorial"
    THEN Guard(NoFactorialArgument(value), function_name, value, now,
               "Factorial is only defined for non-negative integers",
               Continue(<<>>, NoneV, 0))
  ELSE Continue(<<>>, NoneV, 0)

\* scientific_function from self.functions[function_name](value) on.
ScientificTail(function_name, value, now, table) ==
  IF function_name \notin table
    THEN Trace(Raise("KeyError", "'" \o function_name \o "'"),
               FALSE, <<>>, FALSE)
  ELSE With(MathCall(function_name, value),
            LAMBDA result :
              IF result.tag = "raise" THEN Trace(result, FALSE, <<>>, TRUE)
              ELSE Trace(Ret(CalculationResult(<<function_name, value>>,
                               result.val, Plain("scientific_function"),
                               now, TRUE, "")),
                         FALSE, <<>>, TRUE))

\* The first rule of the chain that the pair matches.
FirstMatching(from_unit, to_unit) ==
  CHOOSE x \in Matching(from_unit, to_unit) :
    \A y \in Matching(from_unit, to_unit) : x <= y

\* unit_conversion up to the return statement: the if/elif chain, which
\* assigns result in the branch taken or returns in the else.
ConversionHead(value, ftype, from_unit, ttype, to_unit, now) ==
  IF ftype # "str" THEN Stop(Trace(NoLower(ftype), FALSE, <<>>, FALSE))
  ELSE IF FromRules(from_unit) # {} /\ ttype # "str"
    THEN Stop(Trace(NoLower(ttype), FALSE, <<>>, FALSE))
  ELSE IF FromRules(from_unit) = {} \/ Matching(from_unit, to_unit) = {}
    THEN Stop(Trace(Ret(CalculationResult(
                          <<value, from_unit, to_unit>>, EmptyResult,
                          Plain("unit_conversion"), now, FALSE,
                          "Unsupported conversion: "
                            \o UnitText(ftype, from_unit) \o " to "
                            \o UnitText(ttype, to_unit))),
                    FALSE, <<>>, FALSE))
  ELSE With(FirstMatching(from_unit, to_unit),
            LAMBDA r :
              With(Formula(r, value),
                   LAMBDA result :
                     IF result.tag = "raise"
                       THEN Stop(Trace(result, FALSE, <<>>, FALSE))
                       ELSE Continue(<<>>, result.val, r)))

\* unit_conversion's return statement.
ConversionTail(value, from_unit, to_unit, result, rule, now) ==
  Trace(Ret(CalculationResult(<<value, from_unit, to_unit>>, Round6(result),
                              Label(Rules[rule].text, value, Rules[rule].tail),
                              now, TRUE, "")),
        FALSE, <<>>, FALSE)

\* clean_expr kept in one place for all threads (that of thread 1), as an
\* attribute of the tool would be.
LocalsOnTool(ths, t) ==
  [clean_expr |-> ths[1].clean_expr, result |-> ths[t].result,
   rule |-> ths[t].rule]

\* The local variables of thread t.
Locals(ths, t) ==
  [clean_expr |-> ths[t].clean_expr, result |-> ths[t].result,
   rule |-> ths[t].rule]

\* Thread t is between the two steps of its call.
Inside(t) == threads[t].pc = "inside"

\* The frame of thread t after the head h of its call, whose outer handler
\* is for the operation named.
AfterHead(t, h, expression, operation) ==
  IF h.stop
    THEN [threads[t] EXCEPT
            !.pc = "done",
            !.out = Boundary(h.t, expression, operation, clock).out]
    ELSE [threads[t] EXCEPT
            !.pc = "inside", !.clean_expr = h.clean_expr,
            !.result = h.result, !.rule = h.rule]

\* The frame of thread t after the tail of its call.
AfterTail(t, trace, expression, operation) ==
  [threads[t] EXCEPT
     !.pc = "done",
     !.out = Boundary(trace, expression, operation, clock).out,
     !.overlapped = \E u \in Threads \ {t} : Inside(u)]

Step(t, frame) ==
  /\ threads' = [threads EXCEPT ![t] = frame]
  /\ UNCHANGED <<pc, call, shape, res, evalArg, mathArg, caught, operations,
                 functions, clock, history, response, otherTools>>

BeginCalculate(t) ==
  /\ threads[t].pc = "start"
  /\ threads[t].call.op = "calculate"
  /\ Step(t, AfterHead(t, CalculateHead(threads[t].call.etype,
                                         threads[t].call.expression, clock),
                        threads[t].call.expression, "calculation"))

EndCalculate(t) ==
  /\ Inside(t)
  /\ threads[t].call.op = "calculate"
  /\ Step(t, AfterTail(t, CalculateTail(threads[t].call.expression,
                                         Locals(threads, t).clean_expr, clock),
                        threads[t].call.expression, "calculation"))

BeginScientific(t) ==
  /\ threads[t].pc = "start"
  /\ threads[t].call.op = "scientific_function"
  /\ Step(t, AfterHead(t, ScientificHead(threads[t].call.function_name,
                                          threads[t].call.value, clock,
                                          functions),
                        <<threads[t].call.function_name, threads[t].call.value>>,
                        "scientific_function"))

EndScientific(t) ==
  /\ Inside(t)
  /\ threads[t].call.op = "scientific_function"
  /\ Step(t, AfterTail(t, ScientificTail(threads[t].call.function_name,
                                          threads[t].call.value, clock,
                                          functions),
                        <<threads[t].call.function_name, threads[t].call.value>>,
                        "scientific_function"))

BeginConversion(t) ==
  /\ threads[t].pc = "start"
  /\ threads[t].call.op = "unit_conversion"
  /\ Step(t, AfterHead(t, ConversionHead(threads[t].call.value,
                                          threads[t].call.ftype,
                                          threads[t].call.from_unit,
                                          threads[t].call.ttype,
                                          threads[t].call.to_unit, clock),
                        <<threads[t].call.value, threads[t].call.from_unit,
                          threads[t].call.to_unit>>,
                        "unit_conversion"))

EndConversion(t) ==
  /\ Inside(t)
  /\ threads[t].call.op = "unit_conversion"
  /\ Step(t, AfterTail(t, ConversionTail(threads[t].call.value,
                                          threads[t].call.from_unit,
                                          threads[t].call.to_unit,
                                          Locals(threads, t).result,
                                          Locals(threads, t).rule, clock),
                        <<threads[t].call.value, threads[t].call.from_unit,
                          threads[t].call.to_unit>>,
                        "unit_conversion"))

\* Time passes.
Tick ==
  /\ clock < MaxClock
  /\ clock' = clock + 1
  /\ UNCHANGED <<pc, call, shape, res, evalArg, mathArg, caught, operations,
                 functions, history, threads, response, otherTools>>

\* The calls the threads make.
ConcurrentCalls ==
  {CallCalculate("str", <<"2", " ", "+", " ", "3">>),
   CallCalculate("str", <<"(", "3", "-", "2", ")", "*", "4">>),
   CallCalculate("str", <<"2", "/", "0">>),
   CallCalculate("str", <<"2", "*", "*", "3">>),
   CallCalculate("NoneType", <<>>),
   CallScientific("sqrt", IntV(16)),
   CallScientific("sqrt", IntV(-4)),
   CallScientific("asin", IntV(2)),
   CallScientific("bogus", IntV(1)),
   CallConversion(IntV(100), "str", <<"C">>, "str", <<"F">>),
   CallConversion(FloatV(75, 2), "str", <<"m", "i">>, "str", <<"k", "m">>),
   CallConversion(IntV(5), "str", <<"F">>, "str", <<"K">>),
   CallConversion(StrV, "str", <<"c">>, "str", <<"f">>)}

ConcurrentInit ==
  /\ pc = "threads"
  /\ call = NoCall
  /\ shape = NoShape
  /\ res = NoOutcome
  /\ evalArg = [called |-> FALSE, str |-> <<>>]
  /\ mathArg = FALSE
  /\ caught = ""
  /\ operations = OperationsTable
  /\ functions = FunctionsTable
  /\ clock = 0
  /\ history = <<>>
  /\ threads \in [Threads -> {StartFrame(c) : c \in ConcurrentCalls}]
  /\ response = NoResponse
  /\ OtherToolsIdle

ConcurrentNext ==
  \/ \E t \in Threads :
       \/ BeginCalculate(t)
       \/ EndCalculate(t)
       \/ BeginScientific(t)
       \/ EndScientific(t)
       \/ BeginConversion(t)
       \/ EndConversion(t)
  \/ Tick

Concurrent == ConcurrentInit /\ [][ConcurrentNext]_vars

\* What the call returns when it runs alone on a new tool.
Alone(c) ==
  CASE c.op = "calculate" -> Calculate(c.etype, c.expression, 0).out
    [] c.op = "scientific_function" ->
         ScientificFunction(c.function_name, c.value, 0, FunctionsTable).out
    [] c.op = "unit_conversion" ->
         UnitConversion(c.value, c.ftype, c.from_unit, c.ttype, c.to_unit,
                        0).out

\* C20: under every interleaving of the steps of concurrent calls, each
\* call returns what it returns when run alone, timestamp apart.
C20_InterleavingsReturnAsAlone ==
  \A t \in DOMAIN threads :
    threads[t].pc = "done"
      => Compared(threads[t].call, threads[t].out)
           = Compared(threads[t].call, Alone(threads[t].call))

\* Two calls of calculate, each between its two steps while the other took
\* one, both returned with success.
C20_Witness ==
  /\ DOMAIN threads = Threads
  /\ \A t \in Threads :
       /\ threads[t].pc = "done"
       /\ threads[t].call.op = "calculate"
       /\ threads[t].out.val.success
  /\ threads[1].call # threads[2].call
  /\ \E t \in Threads : threads[t].overlapped

(***************************************************************************)
(* The forecast endpoint get_weather_forecast of tools.py and the          *)
(* WeatherTool it makes (weather.py).  forecast is the frame of one call:  *)
(* its arguments and how far it has come; env is the environment of the    *)
(* process ("None" for a variable that is not set), weather_tool the       *)
(* client and how far its __init__ came, requests the calls of             *)
(* requests.get so far.                                                    *)
(***************************************************************************)
calculator ==
  <<pc, call, shape, res, evalArg, mathArg, caught, operations, functions,
    clock, history, threads>>

\* No calculator call is in progress.
CalculatorIdle ==
  /\ pc = "idle"
  /\ call = NoCall
  /\ shape = NoShape
  /\ res = NoOutcome
  /\ evalArg = [called |-> FALSE, str |-> <<>>]
  /\ mathArg = FALSE
  /\ caught = ""
  /\ operations = OperationsTable
  /\ functions = FunctionsTable
  /\ history = <<>>
  /\ threads = <<>>

MinForecastDays == 1

MaxForecastDays == 14

\* How far outside 1..14 the days argument of the model goes.
DaysSpan == 2

DaysArgs ==
  {IntV(d) : d \in (MinForecastDays - DaysSpan)..(MaxForecastDays + DaysSpan)}
    \cup {NoneV}

Locations == {"London", ""}

Units == {"metric", "imperial", "kelvin"}

ApiKeys == {"None", "", "key"}

BaseUrls == {"None", "https://api.weatherapi.com/v1"}

DaysMessage == "Forecast days must be between 1 and 14"

KeyMessage ==
  "WEATHERAPI_KEY environment variable not set. "
    \o "Please set it with your WeatherAPI.com API key."

\* A range check that forgets the upper end.
DaysAtLeastOne(days) ==
  IF days.k = "int" THEN Ret(MinForecastDays <= days.n)
  ELSE Raise("TypeError",
             "'<=' not supported between instances of 'int' and '"
               \o TypeName(days) \o "'")

\* 1 <= days <= 14
DaysInRange(days) ==
  IF days.k = "int"
    THEN Ret(MinForecastDays <= days.n /\ days.n <= MaxForecastDays)
  ELSE Raise("TypeError",
             "'<=' not supported between instances of 'int' and '"
               \o TypeName(days) \o "'")

\* The endpoint returns the dictionary r.
ForecastReturn(r) ==
  /\ response' = Ret(r)
  /\ forecast' = [forecast EXCEPT !.pc = "returned"]

\* if not 1 <= days <= 14: return the refusal.
ForecastCheckDays ==
  /\ forecast.pc = "called"
  /\ LET inRange == DaysInRange(forecast.days)
     IN IF inRange.tag = "raise"
          THEN ForecastReturn(Refusal(inRange.msg))
        ELSE IF ~inRange.val
          THEN ForecastReturn(Refusal(DaysMessage))
        ELSE /\ forecast' = [forecast EXCEPT !.pc = "checked"]
             /\ UNCHANGED response
  /\ UNCHANGED <<calculator, env, weather_tool, requests, youtube>>

\* weather_tool = WeatherTool(): __init__ reads the environment and raises
\* ValueError when there is no key.
ForecastMakeTool ==
  /\ forecast.pc = "checked"
  /\ IF env.WEATHERAPI_KEY \in {"None", ""}
       THEN /\ weather_tool' = [api_key |-> env.WEATHERAPI_KEY,
                                base_url |-> env.WEATHERAPI_BASE_URL,
                                init |-> "raised"]
            /\ ForecastReturn(Refusal(KeyMessage))
       ELSE /\ weather_tool' = [api_key |-> env.WEATHERAPI_KEY,
                                base_url |-> env.WEATHERAPI_BASE_URL,
                                init |-> "returned"]
            /\ forecast' = [forecast EXCEPT !.pc = "made"]
            /\ UNCHANGED response
  /\ UNCHANGED <<calculator, env, requests, youtube>>

\* WeatherTool.get_weather_forecast up to its call of requests.get.
ForecastRequest ==
  /\ forecast.pc = "made"
  /\ LET inRange == DaysInRange(forecast.days)
     IN IF inRange.tag = "raise"
          THEN /\ ForecastReturn(Refusal("Error getting forecast: "
                                           \o inRange.msg))
               /\ UNCHANGED requests
        ELSE IF ~inRange.val
          THEN /\ ForecastReturn(Refusal("Error getting forecast: "
                                           \o DaysMessage))
               /\ UNCHANGED requests
        ELSE /\ requests' =
                  Append(requests,
                         [url |-> weather_tool.base_url \o "/forecast.json",
                          key |-> weather_tool.api_key,
                          q |-> forecast.location,
                          days |-> forecast.days.n])
             /\ forecast' = [forecast EXCEPT !.pc = "requested"]
             /\ UNCHANGED response
  /\ UNCHANGED <<calculator, env, weather_tool, youtube>>

\* The number of forecast days a reply of the service can carry.
MaxReplyDays == 3

\* What requests.get and the lines after it can meet: a JSON object with n
\* days, an HTTP error status, no connection, a body that is not JSON
\* (a RequestException in newer releases of requests, a ValueError in
\* older ones), JSON that is not an object; with no base URL, requests.get
\* refuses the URL.
Replies(url) ==
  IF url = "None/forecast.json"
    THEN {[kind |-> "MissingSchema", n |-> 0]}
  ELSE {[kind |-> "object", n |-> n] : n \in 0..MaxReplyDays}
         \cup {[kind |-> k, n |-> 0] :
                 k \in {"HTTPError", "ConnectionError", "JSONDecodeError",
                        "ValueError", "AttributeError"}}

Smaller(a, b) == IF a < b THEN a ELSE b

\* The rest of WeatherTool.get_weather_forecast and of the endpoint on the
\* reply rep to request q at time now.
ForecastAnswer(q, rep, now) ==
  IF rep.kind = "object"
    THEN [success |-> TRUE,
          data |-> [location |-> q.q, forecast_days |-> q.days,
                    forecasts |-> Smaller(rep.n, q.days),
                    timestamp |-> now]]
  ELSE IF rep.kind \in {"MissingSchema", "HTTPError", "ConnectionError",
                        "JSONDecodeError"}
    THEN Refusal("Failed to fetch forecast data: " \o rep.kind)
  ELSE Refusal("Error getting forecast: " \o rep.kind)

ForecastReply ==
  /\ forecast.pc = "requested"
  /\ \E rep \in Replies(requests[Len(requests)].url) :
       ForecastReturn(ForecastAnswer(requests[Len(requests)], rep, clock))
  /\ UNCHANGED <<calculator, env, weather_tool, requests, youtube>>

ForecastInit ==
  /\ CalculatorIdle
  /\ clock \in 0..MaxClock
  /\ response = NoResponse
  /\ env \in [WEATHERAPI_KEY : ApiKeys, WEATHERAPI_BASE_URL : BaseUrls]
  /\ weather_tool = NoTool
  /\ requests = <<>>
  /\ forecast \in [pc : {"called"}, location : Locations, days : DaysArgs,
                   units : Units]
  /\ tools = <<>>
  /\ disk = NoFile
  /\ jobs = <<>>
  /\ calls = 0

ForecastNext ==
  \/ ForecastCheckDays
  \/ ForecastMakeTool
  \/ ForecastRequest
  \/ ForecastReply

Forecast == ForecastInit /\ [][ForecastNext]_vars

DaysOutside ==
  /\ forecast.days.k = "int"
  /\ forecast.days.n \notin MinForecastDays..MaxForecastDays

DaysWithin ==
  /\ forecast.days.k = "int"
  /\ forecast.days.n \in MinForecastDays..MaxForecastDays

KeyConfigured == env.WEATHERAPI_KEY \notin {"None", ""}

\* Days outside 1..14 are refused with the message, with no client made
\* and no request sent at any point of the call.
RefusedBeforeClient ==
  DaysOutside
    => /\ weather_tool.init = "not called"
       /\ requests = <<>>
       /\ forecast.pc \in {"called", "returned"}
       /\ forecast.pc = "returned" => response = Ret(Refusal(DaysMessage))

\* C22 as stated: days outside 1..14 are refused before the client is made
\* or a request sent; for days within 1..14 the client is constructed and
\* the request is attempted.
C22_RangeCheckedBeforeClient ==
  /\ RefusedBeforeClient
  /\ DaysWithin /\ forecast.pc = "returned"
       => /\ weather_tool.init = "returned"
          /\ Len(requests) = 1

\* C22, amended: days outside 1..14 are refused before the client is made
\* or a request sent; for days within 1..14 the constructor is called, and
\* the request is attempted when WEATHERAPI_KEY is set; when it is not,
\* the constructor raises and the call fails with its message, no request
\* sent.
C22_RangeCheckedBeforeConfiguredClient ==
  /\ RefusedBeforeClient
  /\ DaysWithin /\ forecast.pc = "returned"
       => /\ weather_tool.init # "not called"
          /\ KeyConfigured
               => /\ weather_tool.init = "returned"
                  /\ Len(requests) = 1
                  /\ requests[1].days = forecast.days.n
          /\ ~KeyConfigured
               => /\ weather_tool.init = "raised"
                  /\ requests = <<>>
                  /\ response = Ret(Refusal(KeyMessage))

\* Fifteen days asked for with no key in the environment: refused for the
\* days.
C22_Witness ==
  /\ forecast.pc = "returned"
  /\ forecast.days = IntV(15)
  /\ env.WEATHERAPI_KEY = "None"
  /\ response = Ret(Refusal(DaysMessage))
  /\ weather_tool.init = "not called"
  /\ requests = <<>>

(***************************************************************************)
(* YouTubeTranscriptTool (youtube_transcript.py).  tools holds the tools   *)
(* made so far, each with its model_size, its whisper_model ("None" or     *)
(* the name of the model loaded) and loads, the number of models it has    *)
(* loaded since it was made or its size last changed.  disk is the file    *)
(* temp_audio.mp3 of the working directory: NoFile, or the video whose     *)
(* audio it holds and the caller whose download wrote it.  jobs holds one  *)
(* frame per caller: the call it is in,                                    *)
(* its local variables and what it has done; calls counts the calls made.  *)
(***************************************************************************)
SupportedModels ==
  [tiny |-> "tiny.en", base |-> "base", small |-> "small",
   medium |-> "medium", large |-> "large"]

\* self.supported_models.get(self.model_size, 'base')
ModelFor(size) ==
  IF size \in DOMAIN SupportedModels THEN SupportedModels[size] ELSE "base"

\* YouTubeTranscriptTool(model_size)
NewTool(model_size) ==
  [model_size |-> model_size, whisper_model |-> "None", loads |-> 0]

\* A load that does not look at the model already held.
LoadWhisperModelAlways(tool, ok) ==
  IF ok
    THEN [tool |-> [tool EXCEPT !.whisper_model = ModelFor(tool.model_size),
                                !.loads = @ + 1],
          out |-> Ret(NoneV)]
    ELSE [tool |-> tool, out |-> Raise("RuntimeError", "model load failed")]

\* load_whisper_model on a tool; ok tells whether whisper.load_model
\* manages to load.
LoadWhisperModel(tool, ok) ==
  IF tool.whisper_model # "None" THEN [tool |-> tool, out |-> Ret(NoneV)]
  ELSE IF ok
    THEN [tool |-> [tool EXCEPT !.whisper_model = ModelFor(tool.model_size),
                                !.loads = @ + 1],
          out |-> Ret(NoneV)]
  ELSE [tool |-> tool, out |-> Raise("RuntimeError", "model load failed")]

\* self.whisper_model.transcribe(audio_file) on a file holding content;
\* ok tells whether whisper gets through the audio.
WhisperTranscribe(tool, content, ok) ==
  IF tool.whisper_model = "None"
    THEN Raise("AttributeError",
               "'NoneType' object has no attribute 'transcribe'")
  ELSE IF content = NoFile
    THEN Raise("RuntimeError", "Failed to load audio")
  ELSE IF ~ok THEN Raise("RuntimeError", "transcription failed")
  ELSE Ret([text |-> content.video, language |-> "en"])

\* A change_model that assigns before it looks at the table.
ChangeModelUnchecked(tool, new_model_size) ==
  IF new_model_size \notin DOMAIN SupportedModels
    THEN [tool |-> NewTool(new_model_size),
          out |-> [success |-> FALSE,
                   error |-> "Unsupported model size. Available: "
                               \o "['tiny', 'base', 'small', 'medium', 'large']"]]
  ELSE [tool |-> NewTool(new_model_size),
        out |-> [success |-> TRUE,
                 message |-> "Model changed to " \o new_model_size,
                 new_model |-> new_model_size]]

\* change_model(new_model_size) on a tool.
ChangeModel(tool, new_model_size) ==
  IF new_model_size \notin DOMAIN SupportedModels
    THEN [tool |-> tool,
          out |-> [success |-> FALSE,
                   error |-> "Unsupported model size. Available: "
                               \o "['tiny', 'base', 'small', 'medium', 'large']"]]
  ELSE [tool |-> NewTool(new_model_size),
        out |-> [success |-> TRUE,
                 message |-> "Model changed to " \o new_model_size,
                 new_model |-> new_model_size]]

AudioFile == "temp_audio.mp3"

\* A cleanup that leaves the file where it is.
CleanupNothing(d, ok) == d

\* cleanup_temp_files on the working directory d; ok tells whether
\* os.remove manages to remove the file.
CleanupTempFiles(d, ok) == IF d # NoFile /\ ok THEN NoFile ELSE d

\* The TranscriptResult of a run that came through, and of one that met
\* the exception with text error.
Transcribed(video_url, result) ==
  [video_url |-> video_url, video_title |-> result.text,
   transcript |-> result.text, language |-> result.language,
   confidence |-> 0, processing_time |-> "elapsed", success |-> TRUE,
   error_message |-> ""]

NotTranscribed(video_url, error) ==
  [video_url |-> video_url, video_title |-> "", transcript |-> "",
   language |-> "", confidence |-> 0, processing_time |-> "elapsed",
   success |-> FALSE, error_message |-> error]

\* What get_transcript_mcp makes of the TranscriptResult.
TranscriptDict(result) ==
  [transcript |-> result.transcript, title |-> result.video_title,
   language |-> result.language, confidence |-> result.confidence,
   processing_time |-> result.processing_time, success |-> result.success]

MaxDuration == 600

\* A limit one second lower.
TooLongFromLimit(info) ==
  IF ~info.success THEN Ret(FALSE)
  ELSE IF info.duration.k # "int"
    THEN Raise("TypeError",
               "'>' not supported between instances of '"
                 \o TypeName(info.duration) \o "' and 'int'")
  ELSE Ret(info.duration.n >= MaxDuration)

\* if video_info.get('success'): ... if duration > 600
TooLong(info) ==
  IF ~info.success THEN Ret(FALSE)
  ELSE IF info.duration.k # "int"
    THEN Raise("TypeError",
               "'>' not supported between instances of '"
                 \o TypeName(info.duration) \o "' and 'int'")
  ELSE Ret(info.duration.n > MaxDuration)

TooLongMessage ==
  "Video too long (>10 minutes). "
    \o "Consider using a shorter video or smaller model."

NoInfo == [success |-> FALSE, duration |-> NoneV, looked |-> FALSE]

\* What get_video_info can return: a failure, or the duration yt-dlp
\* reports (None for a video without one).
Infos ==
  {[success |-> FALSE, duration |-> NoneV, looked |-> TRUE]}
    \cup {[success |-> TRUE, duration |-> d, looked |-> TRUE] :
            d \in {NoneV, IntV(0), IntV(MaxDuration), IntV(MaxDuration + 1),
                   IntV(6 * MaxDuration)}}

NoJob ==
  [pc |-> "idle", op |-> "none", tool |-> 1, video_url |-> "",
   new_model_size |-> "", info |-> NoInfo, audio_file |-> "",
   heard |-> NoFile, error |-> "",
   started |-> FALSE, cleaned |-> FALSE, remove_failed |-> FALSE,
   result |-> NoneV, out |-> NoOutcome]

VideoUrls == {"video A", "video B"}

\* The number of calls one caller makes.
MaxTranscriptCalls == 3

\* Caller t is between two calls and may make another.
Free(t) == jobs[t].pc \in {"idle", "returned"} /\ calls < MaxTranscriptCalls

Job(t, frame) ==
  /\ jobs' = [jobs EXCEPT ![t] = frame]
  /\ UNCHANGED <<calculator, response, weather>>

\* A call of op with video_url on the tool of caller t begins.
Entering(t, op, video_url, at) ==
  [NoJob EXCEPT !.pc = at, !.op = op, !.tool = jobs[t].tool,
                !.video_url = video_url]

\* A call that runs in one step returns out.
OneStep(t, op, out) ==
  [NoJob EXCEPT !.pc = "returned", !.op = op, !.tool = jobs[t].tool,
                !.out = out]

Failing(t, o) == [jobs[t] EXCEPT !.pc = "failed", !.error = o.msg]

DoLoadWhisperModel(t) ==
  /\ Free(t)
  /\ \E ok \in BOOLEAN :
       LET l == LoadWhisperModel(tools[jobs[t].tool], ok)
       IN /\ tools' = [tools EXCEPT ![jobs[t].tool] = l.tool]
          /\ Job(t, OneStep(t, "load_whisper_model", l.out))
  /\ calls' = calls + 1
  /\ UNCHANGED disk

\* transcribe_audio(audio_file) called directly, on temp_audio.mp3 or on a
\* file that is not there.
DoTranscribeAudio(t) ==
  /\ Free(t)
  /\ \E audio_file \in {AudioFile, "missing.wav"}, ok \in BOOLEAN,
        heard \in BOOLEAN :
       LET l == LoadWhisperModel(tools[jobs[t].tool], ok)
           content == IF audio_file = AudioFile THEN disk ELSE NoFile
       IN /\ tools' = [tools EXCEPT ![jobs[t].tool] = l.tool]
          /\ Job(t, OneStep(t, "transcribe_audio",
                             Then(l.out, LAMBDA none :
                               WhisperTranscribe(l.tool, content, heard))))
  /\ calls' = calls + 1
  /\ UNCHANGED disk

ModelSizeArgs == DOMAIN SupportedModels \cup {"huge", "Tiny", ""}

DoChangeModel(t) ==
  /\ Free(t)
  /\ \E new_model_size \in ModelSizeArgs :
       LET c == ChangeModel(tools[jobs[t].tool], new_model_size)
       IN /\ tools' = [tools EXCEPT ![jobs[t].tool] = c.tool]
          /\ Job(t, [OneStep(t, "change_model", Ret(c.out))
                       EXCEPT !.new_model_size = new_model_size])
  /\ calls' = calls + 1
  /\ UNCHANGED disk

BeginGetTranscript(t) ==
  /\ Free(t)
  /\ \E video_url \in VideoUrls :
       Job(t, Entering(t, "get_transcript", video_url, "start"))
  /\ calls' = calls + 1
  /\ UNCHANGED <<tools, disk>>

BeginGetTranscriptMcp(t) ==
  /\ Free(t)
  /\ \E video_url \in VideoUrls :
       Job(t, Entering(t, "get_transcript_mcp", video_url, "info"))
  /\ calls' = calls + 1
  /\ UNCHANGED <<tools, disk>>

\* get_transcript_mcp up to its call of get_transcript.
VideoInfo(t) ==
  /\ jobs[t].pc = "info"
  /\ \E info \in Infos :
       LET long == TooLong(info)
           seen == [jobs[t] EXCEPT !.info = info]
       IN IF long.tag = "raise"
            THEN Job(t, [seen EXCEPT
                           !.pc = "returned",
                           !.out = Ret([error |-> "Failed to process video: "
                                                    \o long.msg,
                                        success |-> FALSE])])
          ELSE IF long.val
            THEN Job(t, [seen EXCEPT
                           !.pc = "returned",
                           !.out = Ret([error |-> TooLongMessage,
                                        estimated_time |-> info.duration.n])])
          ELSE Job(t, [seen EXCEPT !.pc = "start"])
  /\ UNCHANGED <<tools, disk, calls>>

\* download_audio: yt-dlp fetches the audio and writes temp_audio.mp3, or
\* raises.
DownloadWrite(t) ==
  /\ jobs[t].pc = "start"
  /\ \E ok \in BOOLEAN :
       IF ok
         THEN /\ disk' = [by |-> t, video |-> jobs[t].video_url]
              /\ Job(t, [jobs[t] EXCEPT !.pc = "written", !.started = TRUE])
         ELSE /\ UNCHANGED disk
              /\ Job(t, [Failing(t, Raise("DownloadError",
                                          "ERROR: unable to download"))
                           EXCEPT !.started = TRUE])
  /\ UNCHANGED <<tools, calls>>

\* download_audio: if not os.path.exists(audio_file): raise.
DownloadCheck(t) ==
  /\ jobs[t].pc = "written"
  /\ IF disk = NoFile
       THEN Job(t, Failing(t, Raise("FileNotFoundError",
                                    "Audio file temp_audio.mp3 was not created")))
       ELSE Job(t, [jobs[t] EXCEPT !.pc = "downloaded",
                                   !.audio_file = AudioFile])
  /\ UNCHANGED <<tools, disk, calls>>

\* transcribe_audio: self.load_whisper_model()
LoadStep(t) ==
  /\ jobs[t].pc = "downloaded"
  /\ \E ok \in BOOLEAN :
       LET l == LoadWhisperModel(tools[jobs[t].tool], ok)
       IN /\ tools' = [tools EXCEPT ![jobs[t].tool] = l.tool]
          /\ IF l.out.tag = "raise" THEN Job(t, Failing(t, l.out))
             ELSE Job(t, [jobs[t] EXCEPT !.pc = "loaded"])
  /\ UNCHANGED <<disk, calls>>

\* transcribe_audio: self.whisper_model.transcribe(audio_file)
TranscribeStep(t) ==
  /\ jobs[t].pc = "loaded"
  /\ \E ok \in BOOLEAN :
       LET r == WhisperTranscribe(tools[jobs[t].tool], disk, ok)
       IN IF r.tag = "raise" THEN Job(t, Failing(t, r))
          ELSE Job(t, [jobs[t] EXCEPT !.pc = "transcribed", !.heard = disk,
                                      !.result = r.val])
  /\ UNCHANGED <<tools, disk, calls>>

\* The frame of caller t when get_transcript returns result after a
\* cleanup in which os.remove did or did not work.
Leaving(t, result, ok) ==
  [jobs[t] EXCEPT
     !.pc = "returned", !.cleaned = TRUE,
     !.remove_failed = (disk # NoFile /\ ~ok),
     !.result = result,
     !.out = Ret(IF jobs[t].op = "get_transcript_mcp"
                   THEN TranscriptDict(result) ELSE result)]

\* The end of get_transcript's try block: cleanup, then the result.
FinishTranscript(t) ==
  /\ jobs[t].pc = "transcribed"
  /\ \E ok \in BOOLEAN :
       /\ disk' = CleanupTempFiles(disk, ok)
       /\ Job(t, Leaving(t, Transcribed(jobs[t].video_url, jobs[t].result),
                         ok))
  /\ UNCHANGED <<tools, calls>>

\* get_transcript's except Exception: cleanup, then the failed result.
FailTranscript(t) ==
  /\ jobs[t].pc = "failed"
  /\ \E ok \in BOOLEAN :
       /\ disk' = CleanupTempFiles(disk, ok)
       /\ Job(t, Leaving(t, NotTranscribed(jobs[t].video_url, jobs[t].error),
                         ok))
  /\ UNCHANGED <<tools, calls>>

\* The sizes the one tool of a caller is made with.
InitialSizes == {"tiny", "base", "huge"}

\* No forecast is asked for.
WeatherIdle ==
  /\ env = [WEATHERAPI_KEY |-> "None", WEATHERAPI_BASE_URL |-> "None"]
  /\ weather_tool = NoTool
  /\ requests = <<>>
  /\ forecast = NoForecast

\* One caller with one tool, in a working directory that may hold the
\* audio file of an earlier run.
TranscriptsInit ==
  /\ CalculatorIdle
  /\ clock = 0
  /\ response = NoResponse
  /\ WeatherIdle
  /\ tools \in {<<NewTool(size)>> : size \in InitialSizes}
  /\ disk \in {NoFile, [by |-> 0, video |-> "an earlier video"]}
  /\ jobs = <<NoJob>>
  /\ calls = 0

TranscriptsNext ==
  \E t \in DOMAIN jobs :
    \/ DoLoadWhisperModel(t)
    \/ DoTranscribeAudio(t)
    \/ DoChangeModel(t)
    \/ BeginGetTranscript(t)
    \/ BeginGetTranscriptMcp(t)
    \/ VideoInfo(t)
    \/ DownloadWrite(t)
    \/ DownloadCheck(t)
    \/ LoadStep(t)
    \/ TranscribeStep(t)
    \/ FinishTranscript(t)
    \/ FailTranscript(t)

Transcripts == TranscriptsInit /\ [][TranscriptsNext]_vars

\* Caller t has been through get_transcript and is back.
BackFromTranscript(t) ==
  /\ jobs[t].pc = "returned"
  /\ jobs[t].op \in {"get_transcript", "get_transcript_mcp"}
  /\ jobs[t].result # NoneV

\* C23: get_transcript never raises and always cleans up: on every path
\* (download, model load or transcription failing, or success)
\* cleanup_temp_files has run when it returns, so that temp_audio.mp3 does
\* not exist unless its removal failed; a failure gives a TranscriptResult
\* with success = false, an empty transcript and the error text.
C23_TranscriptAlwaysCleansUp ==
  \A t \in DOMAIN jobs :
    BackFromTranscript(t)
      => /\ jobs[t].out.tag = "ret"
         /\ jobs[t].cleaned
         /\ ~jobs[t].remove_failed => disk = NoFile
         /\ jobs[t].result.success = (jobs[t].error = "")
         /\ ~jobs[t].result.success
              => /\ jobs[t].result.transcript = ""
                 /\ jobs[t].result.error_message = jobs[t].error

\* The audio was downloaded, the transcription failed, and the file is
\* gone when get_transcript returns its failed result.
C23_Witness ==
  \E t \in DOMAIN jobs :
    /\ BackFromTranscript(t)
    /\ jobs[t].op = "get_transcript"
    /\ jobs[t].audio_file = AudioFile
    /\ jobs[t].result.error_message = "transcription failed"
    /\ jobs[t].cleaned
    /\ disk = NoFile

\* C24: over any sequence of transcribe_audio, load_whisper_model and
\* change_model calls on one tool, a model is loaded only when none is
\* held, at most once since the last successful change_model, and a model
\* that is held is the one for the current model_size.
C24_ModelLoadedLazilyForSize ==
  \A i \in DOMAIN tools :
    /\ tools[i].loads <= 1
    /\ tools[i].whisper_model = "None" <=> tools[i].loads = 0
    /\ tools[i].whisper_model # "None"
         => tools[i].whisper_model =
              (CASE tools[i].model_size = "tiny" -> "tiny.en"
                 [] tools[i].model_size \in {"base", "small", "medium", "large"}
                      -> tools[i].model_size
                 [] OTHER -> "base")

\* The size changed to large, the model loaded by one transcription and
\* still held, loaded once, after a second one.
C24_Witness ==
  /\ calls = 3
  /\ tools[1].model_size = "large"
  /\ tools[1].whisper_model = "large"
  /\ tools[1].loads = 1
  /\ jobs[1].op = "transcribe_audio"
  /\ jobs[1].out.tag = "ret"

ClaimedSizes == {"tiny", "base", "small", "medium", "large"}

\* C25: change_model with a supported size reports success and sets
\* model_size to it; with any other size it reports failure and leaves
\* model_size and the held whisper model as they were.
C25_ChangeModelOnlyToSupported ==
  [][\A t \in DOMAIN jobs :
       calls' = calls + 1 /\ jobs'[t].op = "change_model"
         => IF jobs'[t].new_model_size \in ClaimedSizes
              THEN /\ jobs'[t].out.val.success
                   /\ tools'[jobs[t].tool].model_size = jobs'[t].new_model_size
              ELSE /\ ~jobs'[t].out.val.success
                   /\ tools'[jobs[t].tool].model_size
                        = tools[jobs[t].tool].model_size
                   /\ tools'[jobs[t].tool].whisper_model
                        = tools[jobs[t].tool].whisper_model]_vars

\* A change to huge refused while the model for tiny is held.
C25_Witness ==
  /\ jobs[1].pc = "returned"
  /\ jobs[1].op = "change_model"
  /\ jobs[1].new_model_size = "huge"
  /\ ~jobs[1].out.val.success
  /\ tools[1].model_size = "tiny"
  /\ tools[1].whisper_model = "tiny.en"

\* get_transcript has been entered by caller t.
InGetTranscript(t) ==
  \/ jobs[t].pc \in {"start", "written", "downloaded", "loaded",
                     "transcribed", "failed"}
  \/ jobs[t].pc = "returned" /\ jobs[t].cleaned

\* C26: when the video-info lookup succeeds with a duration above 600
\* seconds, get_transcript_mcp returns the "Video too long" error and
\* neither the download nor the transcription is ever started; with a
\* duration of at most 600 seconds, or a failed lookup, it goes on to
\* get_transcript.
C26_LongVideosRefusedFirst ==
  \A t \in DOMAIN jobs :
    jobs[t].op = "get_transcript_mcp" /\ jobs[t].info.looked
      => /\ ( /\ jobs[t].info.success
              /\ jobs[t].info.duration.k = "int"
              /\ jobs[t].info.duration.n > 600 )
           => /\ jobs[t].pc = "returned"
              /\ jobs[t].out.val.error = TooLongMessage
              /\ ~jobs[t].started
              /\ ~jobs[t].cleaned
              /\ jobs[t].heard = NoFile
              /\ jobs[t].result = NoneV
         /\ ( \/ ~jobs[t].info.success
              \/ /\ jobs[t].info.duration.k = "int"
                 /\ jobs[t].info.duration.n <= 600 )
           => InGetTranscript(t)

\* A video of 601 seconds refused with nothing downloaded.
C26_Witness ==
  \E t \in DOMAIN jobs :
    /\ jobs[t].op = "get_transcript_mcp"
    /\ jobs[t].pc = "returned"
    /\ jobs[t].info.success
    /\ jobs[t].info.duration = IntV(601)
    /\ jobs[t].out.val.error = TooLongMessage
    /\ ~jobs[t].started
    /\ disk = NoFile

(***************************************************************************)
(* Two requests at once, as the endpoint generate_youtube_transcript       *)
(* serves them: each caller is in get_transcript for its own video, on a   *)
(* tool of its own or on one tool, in one working directory.  The steps    *)
(* of the two calls interleave.                                            *)
(***************************************************************************)
Callers == {1, 2}

\* The frames of a caller entering get_transcript on one of n tools.
Entered(n) ==
  {[NoJob EXCEPT !.pc = "start", !.op = "get_transcript", !.tool = i,
                 !.video_url = video_url] :
     i \in 1..n, video_url \in VideoUrls}

ConcurrentTranscriptsInit ==
  /\ CalculatorIdle
  /\ clock = 0
  /\ response = NoResponse
  /\ WeatherIdle
  /\ tools \in {<<NewTool("base")>>, <<NewTool("base"), NewTool("base")>>}
  /\ disk = NoFile
  /\ jobs \in [Callers -> Entered(Len(tools))]
  /\ calls = Cardinality(Callers)

ConcurrentTranscriptsNext ==
  \E t \in Callers :
    \/ DownloadWrite(t)
    \/ DownloadCheck(t)
    \/ LoadStep(t)
    \/ TranscribeStep(t)
    \/ FinishTranscript(t)
    \/ FailTranscript(t)

ConcurrentTranscripts ==
  ConcurrentTranscriptsInit /\ [][ConcurrentTranscriptsNext]_vars

\* C28: two interleaved get_transcript calls, on one tool or on two, do
\* not interfere: each call transcribes the audio file its own download
\* produced, and no cleanup or download of one call removes or overwrites
\* temp_audio.mp3 while the other still needs it.
C28_TranscriptsDoNotInterfere ==
  \A t \in Callers :
    /\ jobs[t].pc \in {"written", "downloaded", "loaded"} => disk.by = t
    /\ jobs[t].heard # NoFile => jobs[t].heard.by = t

====
